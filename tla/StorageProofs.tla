--------------------------- MODULE StorageProofs ---------------------------
(***************************************************************************)
(* What Storage guarantees for any tables and keys and any number of       *)
(* crashes and faults.                                                     *)
(***************************************************************************)
EXTENDS Storage, TLAPS

NoFiles(t) == dat[t] = None /\ idx[t] = None

----------------------------------------------------------------------------
(* The inductive invariant *)

\* TypeOK, and that the variables are functions on the tables.
KeySets == SUBSET Keys
TableValues == {None} \cup [rows : KeySets, index : {NotOpen, Damaged} \cup KeySets]
DatValues == {None, Damaged} \cup [rows : KeySets, version : {1, 2, 3}]
IdxValues == {None, Blank, Damaged} \cup KeySets

FileTypes ==
    /\ mem \in [Tables -> TableValues]
    /\ dat \in [Tables -> DatValues]
    /\ idx \in [Tables -> IdxValues]

FlagTypes == known \in BOOLEAN /\ dir \in BOOLEAN

ProcessTypes ==
    /\ pc \in {"down", "load", "idle", "bind", "sweep", "save", "remove"}
    /\ todo \subseteq Tables /\ cur \in todo \cup {None}
    /\ touched \subseteq Tables \cup {Dir} /\ hurt \subseteq Tables \cup {Dir}
    /\ crashes \in 0 .. MaxCrashes /\ faults \in 0 .. MaxFaults

Types == FileTypes /\ FlagTypes /\ ProcessTypes

\* What the place in the program says about the rest of the state.
Control ==
    /\ pc \notin {"load", "save"} => todo = {}
    /\ pc = "down" => ~known /\ touched = {}
    /\ pc = "load" => /\ known
                      /\ touched = IF cur = None THEN {} ELSE {cur}
                      /\ cur # None => Readable(cur)
    /\ pc \in {"bind", "sweep", "save"} => known
    /\ pc = "save" /\ cur # None /\ cur \notin hurt => idx[cur] = mem[cur].index
    /\ pc = "remove" => ~known

\* The directory: files are in it, and the Dbms knows it unless a statement
\* that changes it is under way or was interrupted.
DirInv ==
    /\ known => dir
    /\ pc # "down" /\ Dir \notin touched \cup hurt => known = dir

\* Tables in memory: their database is known, they are open once a save has
\* bound them, and their index follows their rows, unless they have been hurt.
MemInv(t) ==
    /\ mem[t] # None => known
    /\ mem[t] # None /\ t \notin hurt => mem[t].index = mem[t].rows
    /\ mem[t] # None /\ pc \in {"sweep", "save"} => mem[t].index # NotOpen
    /\ pc = "save" => /\ t \in todo => mem[t] # None
                      /\ t \in touched => t \in todo

\* Tables and their files: a table that nobody has touched is as it was saved,
\* and a name that can be created anew has no file left.
FilesInv(t) ==
    /\ ~dir => NoFiles(t)
    /\ pc = "load" /\ t \in todo => dat[t] # None
    /\ t \notin touched \cup hurt =>
         /\ FilesAgree(t)
         /\ pc # "down" => Saved(t) \/ (pc = "load" /\ t \in todo)
    /\ pc \in {"idle", "save"} /\ mem[t] = None /\ t \notin hurt => NoFiles(t)

TablesInv == \A t \in Tables : MemInv(t) /\ FilesInv(t)

Inv == Types /\ Control /\ DirInv /\ TablesInv

----------------------------------------------------------------------------
LEMMA Distinct ==
    /\ None \notin {Blank, Damaged, NotOpen} /\ Damaged \notin {Blank, NotOpen}
    /\ \A S \in KeySets : S \notin {None, Blank, Damaged, NotOpen}
    /\ {} \in KeySets
    /\ None \notin Tables /\ Dir \notin Tables
    /\ MaxCrashes \in Nat /\ MaxFaults \in Nat
BY StorageAssumption DEF StorageAssumption, KeySets

LEMMA TableFacts ==
    /\ None \in TableValues
    /\ \A S \in KeySets, i \in {NotOpen, Damaged} \cup KeySets :
         /\ Loaded(S, i) \in TableValues
         /\ Loaded(S, i) # None
         /\ Loaded(S, i).rows = S /\ Loaded(S, i).index = i
    /\ \A x \in TableValues : x # None =>
         x.rows \in KeySets /\ x.index \in {NotOpen, Damaged} \cup KeySets
BY StorageAssumption DEF StorageAssumption, Loaded, TableValues, KeySets

LEMMA DatFacts ==
    /\ None \in DatValues /\ Damaged \in DatValues
    /\ \A S \in KeySets, v \in {1, 2, 3} :
         /\ File(S, v) \in DatValues
         /\ File(S, v) \notin {None, Damaged}
         /\ File(S, v).rows = S /\ File(S, v).version = v
    /\ \A x \in DatValues : x \notin {None, Damaged} =>
         x.rows \in KeySets /\ x.version \in {1, 2, 3}
BY StorageAssumption DEF StorageAssumption, File, DatValues, KeySets

LEMMA IdxFacts ==
    /\ None \in IdxValues /\ Blank \in IdxValues /\ Damaged \in IdxValues
    /\ \A S \in KeySets : S \in IdxValues
    /\ \A x \in IdxValues : x \in {None, Blank, Damaged} \/ x \in KeySets
BY DEF IdxValues

LEMMA InitInv == Init => Inv
<1>. SUFFICES ASSUME Init PROVE Inv
  OBVIOUS
<1>1. FileTypes
  BY TableFacts, DatFacts, IdxFacts DEF Init, FileTypes, KeySets
<1>2. FlagTypes
  BY DEF Init, FlagTypes
<1>3. ProcessTypes
  BY Distinct DEF Init, ProcessTypes
<1>4. Control /\ DirInv
  BY DEF Init, Control, DirInv
<1>5. TablesInv
  BY DatFacts DEF Init, TablesInv, MemInv, FilesInv, FilesAgree, NoFiles, Readable,
     KeySets
<1>. QED
  BY <1>1, <1>2, <1>3, <1>4, <1>5 DEF Inv, Types

\* What open_indexes makes of an .idx file that opens.
LEMMA OpenFacts ==
    ASSUME FileTypes, NEW t \in Tables, Opens(t)
    PROVE  /\ OpenedIndex(t) \in {Damaged} \cup KeySets
           /\ OpenedIndex(t) # NotOpen
           /\ FileAfterOpen(t) \in IdxValues /\ FileAfterOpen(t) # None
           /\ idx[t] # None => OpenedIndex(t) = idx[t] /\ FileAfterOpen(t) = idx[t]
           /\ idx[t] = None => OpenedIndex(t) = {} /\ FileAfterOpen(t) = Blank
BY Distinct, IdxFacts DEF FileTypes, Opens, OpenedIndex, FileAfterOpen

LEMMA LoadInv ==
    ASSUME Inv, NEW t \in Tables, load(t) PROVE Inv'
<1>. USE DEF Inv, Types
<1>1. dat[t] # None /\ (Readable(t) => dat[t].rows \in KeySets)
  BY DatFacts DEF load, TablesInv, FilesInv, FileTypes, Readable
<1>2. PICK rows \in KeySets :
        /\ mem' = [mem EXCEPT ![t] = Loaded(rows, OpenedIndex(t))]
        /\ Readable(t) => rows = dat[t].rows
  <2>1. CASE dat[t] = Damaged
    BY <2>1 DEF load, Readable, KeySets
  <2>2. CASE dat[t] # Damaged
    BY <2>2, <1>1 DEF load, Readable
  <2>. QED
    BY <2>1, <2>2
<1>3. FileTypes'
  BY <1>2, OpenFacts, TableFacts DEF FileTypes, load
<1>4. FlagTypes'
  BY DEF FlagTypes, load
<1>5. ProcessTypes'
  BY DEF ProcessTypes, load, history
<1>6. Control' /\ DirInv'
  BY DEF Control, DirInv, load, history
<1>7. t \notin touched \cup hurt =>
        /\ Readable(t) /\ idx[t] = dat[t].rows
        /\ OpenedIndex(t) = idx[t] /\ FileAfterOpen(t) = idx[t]
  BY <1>1, OpenFacts, Distinct DEF TablesInv, FilesInv, FilesAgree, load
<1>8. ASSUME NEW s \in Tables PROVE MemInv(s)'
  BY <1>2, <1>7, TableFacts DEF Control, TablesInv, MemInv, load, history
<1>9. ASSUME NEW s \in Tables PROVE FilesInv(s)'
  BY <1>2, <1>7, TableFacts DEF FileTypes, TablesInv, FilesInv, FilesAgree, NoFiles,
     Saved, Readable, load, history
<1>. QED
  BY <1>3, <1>4, <1>5, <1>6, <1>8, <1>9 DEF TablesInv

----------------------------------------------------------------------------
(* Every step keeps the invariant, one lemma per action *)

LEMMA StartInv ==
    ASSUME Inv, start PROVE Inv'
<1>. USE DEF Inv, Types
<1>1. FileTypes'
  BY TableFacts DEF FileTypes, start, files
<1>2. FlagTypes'
  BY DEF FlagTypes, start, files
<1>3. ProcessTypes'
  BY DEF ProcessTypes, start, history
<1>4. Control' /\ DirInv'
  BY DEF FlagTypes, Control, DirInv, start, files, history
<1>5. ASSUME NEW s \in Tables PROVE MemInv(s)'
  BY DEF MemInv, start
<1>6. ASSUME NEW s \in Tables PROVE FilesInv(s)'
  BY DEF TablesInv, FilesInv, FilesAgree, NoFiles, Saved, Readable, start, files, history
<1>. QED
  BY <1>1, <1>2, <1>3, <1>4, <1>5, <1>6 DEF TablesInv

LEMMA LoadFailsInv ==
    ASSUME Inv, NEW t \in Tables, load_fails(t) PROVE Inv'
<1>. USE DEF Inv, Types
<1>1. FileTypes'
  BY TableFacts DEF FileTypes, load_fails, StartFails, files
<1>2. FlagTypes'
  BY DEF FlagTypes, load_fails, StartFails, files
<1>3. ProcessTypes'
  BY DEF ProcessTypes, load_fails, StartFails, history
<1>4. Control' /\ DirInv'
  BY DEF Control, DirInv, load_fails, StartFails, history
<1>5. ASSUME NEW s \in Tables PROVE MemInv(s)'
  BY DEF MemInv, load_fails, StartFails
<1>6. ASSUME NEW s \in Tables PROVE FilesInv(s)'
  BY DEF TablesInv, FilesInv, FilesAgree, NoFiles, Readable, load_fails, StartFails,
     files, history
<1>. QED
  BY <1>1, <1>2, <1>3, <1>4, <1>5, <1>6 DEF TablesInv

LEMMA LoadOldInv ==
    ASSUME Inv, NEW t \in Tables, load_old(t) PROVE Inv'
<1>. USE DEF Inv, Types
<1>1. FileTypes'
  BY OpenFacts DEF FileTypes, load_old, memory
<1>2. FlagTypes'
  BY DEF FlagTypes, load_old, memory
<1>3. ProcessTypes'
  BY DEF ProcessTypes, load_old, NoFault
<1>4. Control' /\ DirInv'
  BY Distinct DEF Control, DirInv, Readable, load_old, memory
<1>5. ASSUME NEW s \in Tables PROVE MemInv(s)'
  BY DEF TablesInv, MemInv, load_old, NoFault, memory
<1>6. ASSUME NEW s \in Tables PROVE FilesInv(s)'
  BY DEF TablesInv, FilesInv, FilesAgree, NoFiles, Saved, Readable, load_old, NoFault,
     memory
<1>. QED
  BY <1>1, <1>2, <1>3, <1>4, <1>5, <1>6 DEF TablesInv

LEMMA BulkBuildInv ==
    ASSUME Inv, bulk_build PROVE Inv'
<1>. USE DEF Inv, Types
<1>1. FileTypes'
  BY TableFacts, DatFacts, IdxFacts DEF FileTypes, ProcessTypes, Control, Readable,
     bulk_build
<1>2. FlagTypes'
  BY DEF FlagTypes, bulk_build
<1>3. ProcessTypes'
  BY DEF ProcessTypes, bulk_build, NoFault
<1>4. Control' /\ DirInv'
  BY DEF Control, DirInv, bulk_build
<1>5. ASSUME NEW s \in Tables PROVE MemInv(s)'
  BY TableFacts, DatFacts DEF FileTypes, Control, TablesInv, MemInv, Readable,
     bulk_build, NoFault
<1>6. ASSUME NEW s \in Tables PROVE FilesInv(s)'
  BY TableFacts, DatFacts DEF FileTypes, Control, TablesInv, FilesInv, FilesAgree,
     NoFiles, Saved, Readable, bulk_build, NoFault
<1>. QED
  BY <1>1, <1>2, <1>3, <1>4, <1>5, <1>6 DEF TablesInv

LEMMA BulkBuildShortInv ==
    ASSUME Inv, bulk_build_short PROVE Inv'
<1>. USE DEF Inv, Types
<1>1. FileTypes'
  BY TableFacts, DatFacts, IdxFacts DEF FileTypes, ProcessTypes, Control, Readable,
     bulk_build_short
<1>2. FlagTypes'
  BY DEF FlagTypes, bulk_build_short
<1>3. ProcessTypes'
  BY Distinct DEF ProcessTypes, bulk_build_short, Fault
<1>4. Control' /\ DirInv'
  BY DEF Control, DirInv, bulk_build_short, Fault
<1>5. ASSUME NEW s \in Tables PROVE MemInv(s)'
  BY TableFacts, DatFacts DEF FileTypes, Control, TablesInv, MemInv, Readable,
     bulk_build_short, Fault
<1>6. ASSUME NEW s \in Tables PROVE FilesInv(s)'
  BY TableFacts, DatFacts DEF FileTypes, Control, DirInv, TablesInv, FilesInv, FilesAgree,
     NoFiles, Saved, Readable, bulk_build_short, Fault
<1>. QED
  BY <1>1, <1>2, <1>3, <1>4, <1>5, <1>6 DEF TablesInv

LEMMA BulkBuildRefusedInv ==
    ASSUME Inv, bulk_build_refused PROVE Inv'
<1>. USE DEF Inv, Types
<1>1. FileTypes'
  BY TableFacts DEF FileTypes, bulk_build_refused, StartFails, files
<1>2. FlagTypes'
  BY DEF FlagTypes, bulk_build_refused, StartFails, files
<1>3. ProcessTypes'
  BY Distinct DEF ProcessTypes, bulk_build_refused, Fault, StartFails
<1>4. Control' /\ DirInv'
  BY DEF Control, DirInv, bulk_build_refused, StartFails
<1>5. ASSUME NEW s \in Tables PROVE MemInv(s)'
  BY DEF MemInv, bulk_build_refused, StartFails
<1>6. ASSUME NEW s \in Tables PROVE FilesInv(s)'
  BY DEF TablesInv, FilesInv, FilesAgree, NoFiles, Readable, bulk_build_refused, Fault,
     StartFails, files
<1>. QED
  BY <1>1, <1>2, <1>3, <1>4, <1>5, <1>6 DEF TablesInv

LEMMA LoadDoneInv ==
    ASSUME Inv, load_done PROVE Inv'
<1>. USE DEF Inv, Types
<1>1. FileTypes'
  BY DEF FileTypes, load_done, memory, files
<1>2. FlagTypes'
  BY DEF FlagTypes, load_done, memory, files
<1>3. ProcessTypes'
  BY DEF ProcessTypes, load_done, StatementEnds, history
<1>4. Control' /\ DirInv'
  BY DEF Control, DirInv, load_done, StatementEnds, memory, files
<1>5. ASSUME NEW s \in Tables PROVE MemInv(s)'
  BY DEF TablesInv, MemInv, load_done, StatementEnds, memory, history
<1>6. ASSUME NEW s \in Tables PROVE FilesInv(s)'
  BY DEF ProcessTypes, Control, TablesInv, FilesInv, FilesAgree, NoFiles, Saved,
     Readable, load_done, StatementEnds, memory, files, history
<1>. QED
  BY <1>1, <1>2, <1>3, <1>4, <1>5, <1>6 DEF TablesInv

LEMMA CreateDatabaseInv ==
    ASSUME Inv, create_database PROVE Inv'
<1>. USE DEF Inv, Types
<1>1. FileTypes'
  BY TableFacts DEF FileTypes, create_database
<1>2. FlagTypes'
  BY DEF FlagTypes, create_database
<1>3. ProcessTypes'
  BY DEF ProcessTypes, create_database, Begin, NoFault, Goto
<1>4. Control' /\ DirInv'
  BY DEF Control, DirInv, create_database, Goto
<1>5. ASSUME NEW s \in Tables PROVE MemInv(s)'
  BY DEF MemInv, create_database, Goto
<1>6. ASSUME NEW s \in Tables PROVE FilesInv(s)'
  BY DEF TablesInv, MemInv, FilesInv, FilesAgree, Saved, create_database, Begin, NoFault,
     Goto
<1>. QED
  BY <1>1, <1>2, <1>3, <1>4, <1>5, <1>6 DEF TablesInv

LEMMA DropDatabaseInv ==
    ASSUME Inv, drop_database PROVE Inv'
<1>. USE DEF Inv, Types
<1>1. FileTypes'
  BY TableFacts DEF FileTypes, drop_database, files
<1>2. FlagTypes'
  BY DEF FlagTypes, drop_database, files
<1>3. ProcessTypes'
  BY DEF ProcessTypes, drop_database, Begin, NoFault, Goto
<1>4. Control' /\ DirInv'
  BY DEF Control, DirInv, drop_database, Begin, Goto
<1>5. ASSUME NEW s \in Tables PROVE MemInv(s)'
  BY DEF MemInv, drop_database, Goto
<1>6. ASSUME NEW s \in Tables PROVE FilesInv(s)'
  BY DEF TablesInv, FilesInv, FilesAgree, NoFiles, Saved, drop_database, Begin, Goto,
     files
<1>. QED
  BY <1>1, <1>2, <1>3, <1>4, <1>5, <1>6 DEF TablesInv

LEMMA CreateTableInv ==
    ASSUME Inv, NEW t \in Tables, create_table(t) PROVE Inv'
<1>. USE DEF Inv, Types
<1>1. PICK index \in {NotOpen, Damaged} \cup KeySets, file \in IdxValues :
        /\ mem' = [mem EXCEPT ![t] = Loaded({}, index)]
        /\ idx' = [idx EXCEPT ![t] = file]
        /\ t \notin hurt => index = {}
        /\ pc' \in {"idle", "bind"}
  <2>1. t \notin hurt => idx[t] = None
    BY DEF TablesInv, FilesInv, NoFiles, create_table, Begin
  <2>2. CASE Opens(t)
    <3>1. /\ OpenedIndex(t) \in {NotOpen, Damaged} \cup KeySets
          /\ FileAfterOpen(t) \in IdxValues
          /\ idx[t] = None => OpenedIndex(t) = {}
      BY <2>2, OpenFacts
    <3>. QED
      BY <2>1, <2>2, <3>1 DEF create_table, Goto
  <2>3. CASE ~Opens(t)
    <3>1. idx = [idx EXCEPT ![t] = idx[t]] /\ idx[t] \in IdxValues
      BY DEF FileTypes
    <3>. QED
      BY <2>1, <2>3, <3>1, Distinct DEF create_table, Begin, control, Opens
  <2>. QED
    BY <2>2, <2>3
<1>2. FileTypes'
  BY <1>1, Distinct, TableFacts DEF FileTypes, create_table
<1>3. FlagTypes'
  BY DEF FlagTypes, create_table
<1>4. ProcessTypes'
  BY DEF ProcessTypes, create_table, Begin, NoFault, Goto, control
<1>5. Control' /\ DirInv'
  BY DEF Control, DirInv, create_table, Begin, Goto, control
<1>6. ASSUME NEW s \in Tables PROVE MemInv(s)'
  <2>1. CASE s = t
    <3>1. mem'[t].rows = {} /\ mem'[t].index = index
      BY <1>1, Distinct, TableFacts DEF FileTypes
    <3>. QED
      BY <1>1, <2>1, <3>1 DEF MemInv, create_table, Begin, NoFault
  <2>2. CASE s # t
    <3>1. mem'[s] = mem[s]
      BY <1>1, <2>2
    <3>. QED
      BY <1>1, <3>1 DEF TablesInv, MemInv, create_table, Begin, NoFault
  <2>. QED
    BY <2>1, <2>2
<1>7. ASSUME NEW s \in Tables PROVE FilesInv(s)'
  BY <1>1, Distinct, TableFacts DEF FileTypes, DirInv, TablesInv, FilesInv, FilesAgree,
     NoFiles, Saved, Readable, create_table, Begin, NoFault
<1>. QED
  BY <1>2, <1>3, <1>4, <1>5, <1>6, <1>7 DEF TablesInv

LEMMA DropTableInv ==
    ASSUME Inv, NEW t \in Tables, drop_table(t) PROVE Inv'
<1>. USE DEF Inv, Types
<1>1. FileTypes'
  BY TableFacts DEF FileTypes, drop_table, files
<1>2. FlagTypes'
  BY DEF FlagTypes, drop_table, files
<1>3. ProcessTypes'
  BY DEF ProcessTypes, drop_table, Begin, NoFault, Goto
<1>4. Control' /\ DirInv'
  BY DEF Control, DirInv, TablesInv, MemInv, drop_table, Begin, Goto, files
<1>5. ASSUME NEW s \in Tables PROVE MemInv(s)'
  BY DEF TablesInv, MemInv, drop_table, Begin, NoFault, Goto
<1>6. ASSUME NEW s \in Tables PROVE FilesInv(s)'
  BY DEF TablesInv, FilesInv, FilesAgree, NoFiles, Saved, Readable, drop_table, Begin,
     NoFault, Goto, files
<1>. QED
  BY <1>1, <1>2, <1>3, <1>4, <1>5, <1>6 DEF TablesInv

LEMMA EvictInv ==
    ASSUME Inv, NEW t \in Tables, evict(t) PROVE Inv'
<1>. USE DEF Inv, Types
<1>1. FileTypes'
  BY IdxFacts DEF FileTypes, evict, memory
<1>2. FlagTypes'
  BY DEF FlagTypes, evict, memory
<1>3. ProcessTypes'
  BY DEF ProcessTypes, evict, control, history
<1>4. Control' /\ DirInv'
  BY DEF Control, DirInv, evict, memory, control, history
<1>5. ASSUME NEW s \in Tables PROVE MemInv(s)'
  BY DEF TablesInv, MemInv, evict, memory, control, history
<1>6. ASSUME NEW s \in Tables PROVE FilesInv(s)'
  BY DEF TablesInv, FilesInv, FilesAgree, NoFiles, Saved, Readable, evict, memory,
     control, history
<1>. QED
  BY <1>1, <1>2, <1>3, <1>4, <1>5, <1>6 DEF TablesInv

LEMMA BindInv ==
    ASSUME Inv, bind PROVE Inv'
<1>. USE DEF Inv, Types
<1>1. ASSUME NEW s \in Tables, mem[s] # None, mem[s].index = NotOpen
      PROVE  /\ s \in hurt /\ known
             /\ mem'[s] = Loaded(mem[s].rows, OpenedIndex(s))
             /\ idx'[s] = FileAfterOpen(s)
             /\ OpenedIndex(s) \in {Damaged} \cup KeySets
             /\ FileAfterOpen(s) \in IdxValues
             /\ mem[s].rows \in KeySets
  BY <1>1, Distinct, TableFacts, OpenFacts DEF FileTypes, TablesInv, MemInv, bind,
     Existing
<1>2. ASSUME NEW s \in Tables, mem[s] = None \/ mem[s].index # NotOpen
      PROVE  mem'[s] = mem[s] /\ idx'[s] = idx[s]
  BY <1>2 DEF bind, Existing
<1>3. FileTypes'
  <2>1. ASSUME NEW s \in Tables PROVE mem'[s] \in TableValues /\ idx'[s] \in IdxValues
    BY <1>1, <1>2, TableFacts DEF FileTypes
  <2>2. DOMAIN mem' = Tables /\ DOMAIN idx' = Tables /\ dat' = dat
        /\ mem' = [s \in Tables |-> mem'[s]] /\ idx' = [s \in Tables |-> idx'[s]]
    BY DEF bind
  <2>. QED
    BY <2>1, <2>2 DEF FileTypes
<1>4. FlagTypes'
  BY DEF FlagTypes, bind
<1>5. ProcessTypes'
  BY DEF ProcessTypes, bind, Goto, history
<1>6. Control' /\ DirInv'
  BY DEF Control, DirInv, bind, Goto
<1>7. ASSUME NEW s \in Tables PROVE MemInv(s)'
  BY <1>1, <1>2, Distinct, TableFacts DEF TablesInv, MemInv, bind, Goto, history
<1>8. ASSUME NEW s \in Tables PROVE FilesInv(s)'
  BY <1>1, <1>2 DEF TablesInv, DirInv, FilesInv, FilesAgree, NoFiles, Saved, Readable,
     bind, Goto, history
<1>. QED
  BY <1>3, <1>4, <1>5, <1>6, <1>7, <1>8 DEF TablesInv

LEMMA BindFailsInv ==
    ASSUME Inv, bind_fails PROVE Inv'
<1>. USE DEF Inv, Types
<1>1. FileTypes'
  BY DEF FileTypes, bind_fails, memory, files
<1>2. FlagTypes'
  BY DEF FlagTypes, bind_fails, memory, files
<1>3. ProcessTypes'
  BY DEF ProcessTypes, bind_fails, StatementEnds
<1>4. Control' /\ DirInv'
  BY DEF Control, DirInv, bind_fails, StatementEnds, memory, files
<1>5. ASSUME NEW s \in Tables PROVE MemInv(s)'
  BY DEF TablesInv, MemInv, bind_fails, StatementEnds, memory
<1>6. ASSUME NEW s \in Tables PROVE FilesInv(s)'
  BY DEF TablesInv, FilesInv, FilesAgree, NoFiles, Saved, Readable, bind_fails,
     StatementEnds, memory, files
<1>. QED
  BY <1>1, <1>2, <1>3, <1>4, <1>5, <1>6 DEF TablesInv

LEMMA SweepInv ==
    ASSUME Inv, NEW t \in Tables, sweep(t) PROVE Inv'
<1>. USE DEF Inv, Types
<1>1. FileTypes'
  BY DatFacts, IdxFacts DEF FileTypes, sweep, RemoveFile, memory, Orphans
<1>2. FlagTypes'
  BY DEF FlagTypes, sweep, memory
<1>3. ProcessTypes'
  BY DEF ProcessTypes, sweep, control
<1>4. Control' /\ DirInv'
  BY DEF Control, DirInv, sweep, memory, control
<1>5. ASSUME NEW s \in Tables PROVE MemInv(s)'
  BY DEF TablesInv, MemInv, sweep, memory, control, Orphans, Existing
<1>6. ASSUME NEW s \in Tables PROVE FilesInv(s)'
  BY DEF FileTypes, TablesInv, FilesInv, FilesAgree, NoFiles, Saved, Readable, sweep,
     RemoveFile, Gone, memory, control, Orphans, Existing
<1>. QED
  BY <1>1, <1>2, <1>3, <1>4, <1>5, <1>6 DEF TablesInv

LEMMA SweepDoneInv ==
    ASSUME Inv, sweep_done PROVE Inv'
<1>. USE DEF Inv, Types
<1>1. FileTypes'
  BY DEF FileTypes, sweep_done, memory, files
<1>2. FlagTypes'
  BY DEF FlagTypes, sweep_done, memory, files
<1>3. ProcessTypes'
  BY DEF ProcessTypes, sweep_done, StartSaving, NoFault, Existing
<1>4. Control' /\ DirInv'
  BY DEF Control, DirInv, sweep_done, StartSaving, memory, files
<1>5. ASSUME NEW s \in Tables PROVE MemInv(s)'
  BY Distinct DEF TablesInv, MemInv, sweep_done, StartSaving, NoFault, memory, Existing
<1>6. ASSUME NEW s \in Tables PROVE FilesInv(s)'
  BY DEF TablesInv, FilesInv, FilesAgree, NoFiles, Saved, Readable, sweep_done,
     StartSaving, NoFault, memory, files, Orphans, Existing
<1>. QED
  BY <1>1, <1>2, <1>3, <1>4, <1>5, <1>6 DEF TablesInv

LEMMA SweepFailsInv ==
    ASSUME Inv, sweep_fails PROVE Inv'
<1>. USE DEF Inv, Types
<1>1. FileTypes'
  BY DEF FileTypes, sweep_fails, memory, files
<1>2. FlagTypes'
  BY DEF FlagTypes, sweep_fails, memory, files
<1>3. ProcessTypes'
  BY Distinct DEF ProcessTypes, sweep_fails, StartSaving, Fault, Orphans, Existing
<1>4. Control' /\ DirInv'
  BY DEF Control, DirInv, sweep_fails, StartSaving, memory, files
<1>5. ASSUME NEW s \in Tables PROVE MemInv(s)'
  BY Distinct DEF TablesInv, MemInv, sweep_fails, StartSaving, Fault, memory, Existing
<1>6. ASSUME NEW s \in Tables PROVE FilesInv(s)'
  BY DEF TablesInv, FilesInv, FilesAgree, NoFiles, Saved, Readable, sweep_fails,
     StartSaving, Fault, memory, files, Orphans, Existing
<1>. QED
  BY <1>1, <1>2, <1>3, <1>4, <1>5, <1>6 DEF TablesInv

LEMMA SaveIndexInv ==
    ASSUME Inv, NEW t \in Tables, save_index(t) PROVE Inv'
<1>. USE DEF Inv, Types
<1>1. FileTypes'
  BY TableFacts, IdxFacts DEF FileTypes, TablesInv, MemInv, save_index, memory
<1>2. FlagTypes'
  BY DEF FlagTypes, save_index, memory
<1>3. ProcessTypes'
  BY DEF ProcessTypes, save_index, history
<1>4. Control' /\ DirInv'
  BY DEF FileTypes, Control, DirInv, save_index, memory
<1>5. ASSUME NEW s \in Tables PROVE MemInv(s)'
  BY DEF TablesInv, MemInv, save_index, memory, history
<1>6. ASSUME NEW s \in Tables PROVE FilesInv(s)'
  BY DEF DirInv, TablesInv, MemInv, FilesInv, FilesAgree, NoFiles, Saved, Readable,
     save_index, memory, history
<1>. QED
  BY <1>1, <1>2, <1>3, <1>4, <1>5, <1>6 DEF TablesInv

LEMMA SaveIndexFailsInv ==
    ASSUME Inv, NEW t \in Tables, save_index_fails(t) PROVE Inv'
<1>. USE DEF Inv, Types
<1>1. FileTypes'
  BY IdxFacts DEF FileTypes, save_index_fails, Torn, memory
<1>2. FlagTypes'
  BY DEF FlagTypes, save_index_fails, memory
<1>3. ProcessTypes'
  BY Distinct DEF ProcessTypes, save_index_fails, Fault, StatementEnds
<1>4. Control' /\ DirInv'
  BY DEF Control, DirInv, save_index_fails, StatementEnds, memory
<1>5. ASSUME NEW s \in Tables PROVE MemInv(s)'
  BY DEF TablesInv, MemInv, save_index_fails, Fault, StatementEnds, memory
<1>6. ASSUME NEW s \in Tables PROVE FilesInv(s)'
  BY DEF DirInv, TablesInv, MemInv, FilesInv, FilesAgree, NoFiles, Saved, Readable,
     save_index_fails, Torn, Fault, StatementEnds, memory
<1>. QED
  BY <1>1, <1>2, <1>3, <1>4, <1>5, <1>6 DEF TablesInv

LEMMA SaveIndexShortInv ==
    ASSUME Inv, NEW t \in Tables, save_index_short(t) PROVE Inv'
<1>. USE DEF Inv, Types
<1>1. FileTypes'
  BY TableFacts, IdxFacts DEF FileTypes, TablesInv, MemInv, save_index_short, Torn
<1>2. FlagTypes'
  BY DEF FlagTypes, save_index_short
<1>3. ProcessTypes'
  BY Distinct DEF ProcessTypes, save_index_short, Fault
<1>4. Control' /\ DirInv'
  BY DEF FileTypes, Control, DirInv, save_index_short, Fault
<1>5. ASSUME NEW s \in Tables PROVE MemInv(s)'
  BY TableFacts, Distinct DEF FileTypes, TablesInv, MemInv, save_index_short, Fault
<1>6. ASSUME NEW s \in Tables PROVE FilesInv(s)'
  BY TableFacts DEF FileTypes, DirInv, TablesInv, MemInv, FilesInv, FilesAgree, NoFiles,
     Saved, Readable, save_index_short, Fault
<1>. QED
  BY <1>1, <1>2, <1>3, <1>4, <1>5, <1>6 DEF TablesInv

LEMMA SaveDatInv ==
    ASSUME Inv, save_dat PROVE Inv'
<1>. USE DEF Inv, Types
<1>1. FileTypes'
  BY TableFacts, DatFacts DEF FileTypes, ProcessTypes, TablesInv, MemInv, save_dat, memory
<1>2. FlagTypes'
  BY DEF FlagTypes, save_dat, memory
<1>3. ProcessTypes'
  BY DEF ProcessTypes, save_dat, NoFault
<1>4. Control' /\ DirInv'
  BY DEF Control, DirInv, save_dat, memory
<1>5. ASSUME NEW s \in Tables PROVE MemInv(s)'
  BY DEF TablesInv, MemInv, save_dat, NoFault, memory
<1>6. ASSUME NEW s \in Tables PROVE FilesInv(s)'
  <2>1. /\ cur \in Tables /\ mem[cur] # None /\ mem[cur].rows \in KeySets
        /\ cur \notin hurt => idx[cur] = mem[cur].rows /\ mem[cur].index = mem[cur].rows
        /\ dir
    BY Distinct, TableFacts DEF FileTypes, ProcessTypes, Control, DirInv, TablesInv,
       MemInv, save_dat
  <2>2. /\ dat' = [dat EXCEPT ![cur] = File(mem[cur].rows, 3)]
        /\ UNCHANGED <<mem, known, dir, idx, pc, hurt>>
        /\ pc = "save" /\ touched' = touched \ {cur} /\ todo' = todo \ {cur}
    BY DEF save_dat, NoFault, memory
  <2>3. CASE s = cur
    BY <2>1, <2>2, <2>3, DatFacts DEF FileTypes, FilesInv, FilesAgree, NoFiles, Saved, Readable
  <2>4. CASE s # cur
    <3>1. dat'[s] = dat[s] /\ (s \in touched' <=> s \in touched)
      BY <2>1, <2>2, <2>4 DEF FileTypes
    <3>. QED
      BY <2>2, <3>1 DEF TablesInv, FilesInv, FilesAgree, NoFiles, Saved, Readable
  <2>. QED
    BY <2>3, <2>4
<1>. QED
  BY <1>1, <1>2, <1>3, <1>4, <1>5, <1>6 DEF TablesInv

LEMMA SaveDatFailsInv ==
    ASSUME Inv, save_dat_fails PROVE Inv'
<1>. USE DEF Inv, Types
<1>1. FileTypes'
  BY DEF FileTypes, save_dat_fails, memory, files
<1>2. FlagTypes'
  BY DEF FlagTypes, save_dat_fails, memory, files
<1>3. ProcessTypes'
  BY Distinct DEF ProcessTypes, save_dat_fails, Fault, StatementEnds
<1>4. Control' /\ DirInv'
  BY DEF Control, DirInv, save_dat_fails, StatementEnds, memory, files
<1>5. ASSUME NEW s \in Tables PROVE MemInv(s)'
  BY DEF TablesInv, MemInv, save_dat_fails, Fault, StatementEnds, memory
<1>6. ASSUME NEW s \in Tables PROVE FilesInv(s)'
  BY DEF TablesInv, FilesInv, FilesAgree, NoFiles, Saved, Readable, save_dat_fails,
     Fault, StatementEnds, memory, files
<1>. QED
  BY <1>1, <1>2, <1>3, <1>4, <1>5, <1>6 DEF TablesInv

LEMMA SaveDatShortInv ==
    ASSUME Inv, save_dat_short PROVE Inv'
<1>. USE DEF Inv, Types
<1>1. FileTypes'
  BY DatFacts DEF FileTypes, save_dat_short, memory
<1>2. FlagTypes'
  BY DEF FlagTypes, save_dat_short, memory
<1>3. ProcessTypes'
  BY Distinct DEF ProcessTypes, save_dat_short, Fault
<1>4. Control' /\ DirInv'
  BY DEF Control, DirInv, save_dat_short, memory
<1>5. ASSUME NEW s \in Tables PROVE MemInv(s)'
  BY DEF TablesInv, MemInv, save_dat_short, Fault, memory
<1>6. ASSUME NEW s \in Tables PROVE FilesInv(s)'
  BY DEF Control, DirInv, TablesInv, FilesInv, FilesAgree, NoFiles, Saved, Readable,
     save_dat_short, Fault, memory
<1>. QED
  BY <1>1, <1>2, <1>3, <1>4, <1>5, <1>6 DEF TablesInv

LEMMA SaveDoneInv ==
    ASSUME Inv, save_done PROVE Inv'
<1>. USE DEF Inv, Types
<1>1. FileTypes'
  BY DEF FileTypes, save_done, memory, files
<1>2. FlagTypes'
  BY DEF FlagTypes, save_done, memory, files
<1>3. ProcessTypes'
  BY DEF ProcessTypes, save_done, StatementEnds, NoFault
<1>4. Control' /\ DirInv'
  BY DEF Control, DirInv, save_done, StatementEnds, memory, files
<1>5. ASSUME NEW s \in Tables PROVE MemInv(s)'
  BY DEF TablesInv, MemInv, save_done, StatementEnds, NoFault, memory
<1>6. ASSUME NEW s \in Tables PROVE FilesInv(s)'
  BY Distinct DEF TablesInv, FilesInv, FilesAgree, NoFiles, Saved, Readable, save_done,
     StatementEnds, NoFault, memory, files
<1>. QED
  BY <1>1, <1>2, <1>3, <1>4, <1>5, <1>6 DEF TablesInv

LEMMA RemoveInv ==
    ASSUME Inv, NEW t \in Tables, remove(t) PROVE Inv'
<1>. USE DEF Inv, Types
<1>1. FileTypes'
  BY DatFacts, IdxFacts DEF FileTypes, remove, RemoveFile, memory
<1>2. FlagTypes'
  BY DEF FlagTypes, remove, memory
<1>3. ProcessTypes'
  BY DEF ProcessTypes, remove, control
<1>4. Control' /\ DirInv'
  BY Distinct DEF Control, DirInv, remove, memory, control
<1>5. ASSUME NEW s \in Tables PROVE MemInv(s)'
  BY DEF Control, TablesInv, MemInv, remove, memory, control
<1>6. ASSUME NEW s \in Tables PROVE FilesInv(s)'
  BY DEF FileTypes, Control, TablesInv, MemInv, FilesInv, FilesAgree, NoFiles, Saved,
     remove, RemoveFile, Gone, memory, control
<1>. QED
  BY <1>1, <1>2, <1>3, <1>4, <1>5, <1>6 DEF TablesInv

LEMMA RemoveDoneInv ==
    ASSUME Inv, remove_done PROVE Inv'
<1>. USE DEF Inv, Types
<1>1. FileTypes'
  BY DEF FileTypes, remove_done, memory
<1>2. FlagTypes'
  BY DEF FlagTypes, remove_done, memory
<1>3. ProcessTypes'
  BY DEF ProcessTypes, remove_done, StatementEnds
<1>4. Control' /\ DirInv'
  BY DEF FlagTypes, Control, DirInv, remove_done, StatementEnds, memory
<1>5. ASSUME NEW s \in Tables PROVE MemInv(s)'
  BY Distinct DEF TablesInv, MemInv, remove_done, StatementEnds, memory
<1>6. ASSUME NEW s \in Tables PROVE FilesInv(s)'
  BY DEF Control, TablesInv, MemInv, FilesInv, FilesAgree, NoFiles, Saved, remove_done,
     StatementEnds, memory, Orphans, Existing
<1>. QED
  BY <1>1, <1>2, <1>3, <1>4, <1>5, <1>6 DEF TablesInv

LEMMA RemoveFailsInv ==
    ASSUME Inv, remove_fails PROVE Inv'
<1>. USE DEF Inv, Types
<1>1. FileTypes'
  BY DEF FileTypes, remove_fails, memory, files
<1>2. FlagTypes'
  BY DEF FlagTypes, remove_fails, memory, files
<1>3. ProcessTypes'
  BY Distinct DEF ProcessTypes, remove_fails, Fault, StatementEnds, Orphans
<1>4. Control' /\ DirInv'
  BY DEF Control, DirInv, remove_fails, Fault, StatementEnds, memory
<1>5. ASSUME NEW s \in Tables PROVE MemInv(s)'
  BY DEF TablesInv, MemInv, remove_fails, Fault, StatementEnds, memory
<1>6. ASSUME NEW s \in Tables PROVE FilesInv(s)'
  BY DEF Control, TablesInv, MemInv, FilesInv, FilesAgree, NoFiles, Saved, remove_fails,
     Fault, StatementEnds, memory, files, Orphans, Existing
<1>. QED
  BY <1>1, <1>2, <1>3, <1>4, <1>5, <1>6 DEF TablesInv

LEMMA ChangedFacts ==
    ASSUME FileTypes, NEW t \in Tables, mem[t] # None, NEW rows \in KeySets
    PROVE  /\ Changed(t, rows) \in TableValues /\ Changed(t, rows) # None
           /\ mem[t].index = mem[t].rows => Changed(t, rows) = Loaded(rows, rows)
           /\ rows = mem[t].rows => Changed(t, rows) = mem[t]
<1>. USE DEF FileTypes
<1>1. mem[t] \in TableValues /\ mem[t].rows \in KeySets
      /\ mem[t].index \in {NotOpen, Damaged} \cup KeySets
  BY TableFacts
<1>. DEFINE index == IF mem[t].index \in {NotOpen, Damaged} THEN mem[t].index
                     ELSE (mem[t].index \ (mem[t].rows \ rows)) \cup (rows \ mem[t].rows)
<1>2. Changed(t, rows) = Loaded(rows, index)
  BY DEF Changed
<1>3. index \in {NotOpen, Damaged} \cup KeySets
  BY <1>1 DEF KeySets
<1>4. mem[t].index = mem[t].rows => index = rows
  BY <1>1, Distinct
<1>5. rows = mem[t].rows => index = mem[t].index
  OBVIOUS
<1>6. Loaded(mem[t].rows, mem[t].index) = mem[t]
  BY DEF TableValues, Loaded
<1>. HIDE DEF index
<1>. QED
  BY <1>2, <1>3, <1>4, <1>5, <1>6, TableFacts

LEMMA ChangeInv ==
    ASSUME Inv, NEW t \in Tables, NEW rows \in KeySets,
           change(t, rows) \/ change_fails(t, rows)
    PROVE  Inv'
<1>. USE DEF Inv, Types
<1>1. /\ mem[t] # None
      /\ mem' = [mem EXCEPT ![t] = Changed(t, rows)]
      /\ pc = "idle" /\ pc' \in {"idle", "bind"}
      /\ touched \subseteq touched' /\ touched' \subseteq touched \cup {t}
      /\ rows # mem[t].rows => t \in touched'
      /\ UNCHANGED <<todo, cur, known, dir, dat, idx, hurt, crashes, faults>>
  BY DEF change, change_fails, Begin, NoFault, Goto, control, files
<1>2. /\ mem'[t] \in TableValues /\ mem'[t] # None
      /\ mem[t].index = mem[t].rows => mem'[t] = Loaded(rows, rows)
      /\ rows = mem[t].rows => mem'[t] = mem[t]
      /\ \A s \in Tables \ {t} : mem'[s] = mem[s]
  BY <1>1, ChangedFacts DEF FileTypes
<1>3. FileTypes'
  BY <1>1, <1>2 DEF FileTypes
<1>4. FlagTypes'
  BY <1>1 DEF FlagTypes
<1>5. ProcessTypes'
  BY <1>1 DEF ProcessTypes
<1>6. known
  BY <1>1 DEF TablesInv, MemInv
<1>7. Control' /\ DirInv'
  BY <1>1, <1>6 DEF Control, DirInv
<1>8. ASSUME NEW s \in Tables PROVE MemInv(s)'
  BY <1>1, <1>2, TableFacts DEF TablesInv, MemInv
<1>9. ASSUME NEW s \in Tables PROVE FilesInv(s)'
  BY <1>1, <1>2 DEF TablesInv, FilesInv, FilesAgree, NoFiles, Saved, Readable
<1>. QED
  BY <1>3, <1>4, <1>5, <1>7, <1>8, <1>9 DEF TablesInv

LEMMA CrashInv ==
    ASSUME Inv, crash PROVE Inv'
<1>. USE DEF Inv, Types
<1>1. /\ idx' \in [Tables -> IdxValues]
      /\ \A s \in Tables \ (touched \cup hurt) : idx'[s] = idx[s]
      /\ idx' # idx => known
  <2>1. CASE idx' = idx
    BY <2>1 DEF FileTypes
  <2>2. ASSUME pc = "save", NEW t \in todo, NEW f \in Torn(t), idx' = [idx EXCEPT ![t] = f]
        PROVE  <1>1!:
    BY <2>2, IdxFacts DEF FileTypes, Control, TablesInv, MemInv, FilesInv, Saved, Torn
  <2>3. ASSUME pc = "load", cur # None, NEW f \in {Blank, Damaged}, idx' = [idx EXCEPT ![cur] = f]
        PROVE  <1>1!:
    BY <2>3, IdxFacts DEF FileTypes, Control
  <2>. QED
    BY <2>1, <2>2, <2>3 DEF crash
<1>2. FileTypes'
  BY <1>1, TableFacts DEF FileTypes, crash
<1>3. FlagTypes'
  BY DEF FlagTypes, crash
<1>4. ProcessTypes'
  BY Distinct DEF ProcessTypes, crash
<1>5. Control' /\ DirInv'
  BY DEF Control, DirInv, crash
<1>6. ASSUME NEW s \in Tables PROVE MemInv(s)'
  BY DEF MemInv, crash
<1>7. ASSUME NEW s \in Tables PROVE FilesInv(s)'
  BY <1>1 DEF DirInv, TablesInv, FilesInv, FilesAgree, NoFiles, Readable, crash
<1>. QED
  BY <1>2, <1>3, <1>4, <1>5, <1>6, <1>7 DEF TablesInv

LEMMA InvStep == Inv /\ [Next]_vars => Inv'
<1>. SUFFICES ASSUME Inv, [Next]_vars PROVE Inv'
  OBVIOUS
<1>1. CASE Step
  BY <1>1, StartInv, BulkBuildInv, BulkBuildRefusedInv, LoadDoneInv, BindInv,
     BindFailsInv, SweepDoneInv, SweepFailsInv, SaveDatInv, SaveDatFailsInv,
     SaveDatShortInv, SaveDoneInv, RemoveDoneInv, RemoveFailsInv, LoadInv, LoadFailsInv,
     LoadOldInv, SweepInv, SaveIndexInv, SaveIndexFailsInv, RemoveInv,
     BulkBuildShortInv, SaveIndexShortInv DEF Step
<1>2. CASE create_database \/ drop_database
  BY <1>2, CreateDatabaseInv, DropDatabaseInv
<1>3. ASSUME NEW t \in Tables, Statement(t) PROVE Inv'
  BY <1>3, CreateTableInv, DropTableInv, ChangeInv DEF Statement, KeySets
<1>4. ASSUME NEW t \in Tables, evict(t) PROVE Inv'
  BY <1>4, EvictInv
<1>5. CASE crash
  BY <1>5, CrashInv
<1>6. CASE UNCHANGED vars
  BY <1>6 DEF vars, Inv, Types, FileTypes, FlagTypes, ProcessTypes, Control, DirInv,
     TablesInv, MemInv, FilesInv, FilesAgree, NoFiles, Saved, Readable
<1>. QED
  BY <1>1, <1>2, <1>3, <1>4, <1>5, <1>6 DEF Next

LEMMA InvHolds == Spec => []Inv
<1>. QED
  BY InitInv, InvStep, PTL DEF Spec

----------------------------------------------------------------------------
(* Every variable keeps its type, whatever crashes and faults leave in the *)
(* files of database.cpp and table.cpp: nothing that is loaded or opened   *)
(* is taken for rows or for an index when it is none.                      *)
THEOREM TypesHold == Spec => []TypeOK
<1>1. Inv => TypeOK
  <2>. SUFFICES ASSUME Inv PROVE TypeOK
    OBVIOUS
  <2>. USE DEF Inv, Types
  <2>1. \A t \in Tables : mem[t] # None =>
          /\ mem[t].rows \subseteq Keys
          /\ mem[t].index \in {NotOpen, Damaged} \/ IsKeySet(mem[t].index)
    BY TableFacts DEF FileTypes, KeySets, IsKeySet
  <2>2. \A t \in Tables : Readable(t) => dat[t] \in [rows : SUBSET Keys, version : {1, 2, 3}]
    BY DEF FileTypes, Readable, DatValues, KeySets
  <2>3. \A t \in Tables : idx[t] \in {None, Blank, Damaged} \/ IsKeySet(idx[t])
    BY IdxFacts DEF FileTypes, KeySets, IsKeySet
  <2>. QED
    BY <2>1, <2>2, <2>3 DEF FlagTypes, ProcessTypes, TypeOK
<1>. QED
  BY <1>1, InvHolds, PTL

(* A crash or an error in the middle of save_to, load_from or DROP         *)
(* DATABASE harms only tables that had been changed and not been saved, or *)
(* whose own flush or write failed unnoticed: the .dat and .idx files of   *)
(* every other table agree at every moment.                                *)
THEOREM CrashesConfined == Spec => []CrashConfined
<1>1. Inv => CrashConfined
  BY DEF Inv, TablesInv, FilesInv, CrashConfined
<1>. QED
  BY <1>1, InvHolds, PTL

(* When save_to is through, and between statements for all that no failed  *)
(* statement has changed, memory and files of a table are the same, unless *)
(* an error that the code does not look at has hurt it: a restart after an *)
(* acknowledged statement finds what the statement left.                   *)
THEOREM Durability == Spec => []Durable
<1>1. Inv => Durable
  BY DEF Inv, DirInv, TablesInv, MemInv, FilesInv, Durable
<1>. QED
  BY <1>1, InvHolds, PTL

(* load_all and the open_indexes of a save fail only when an earlier crash *)
(* or error has hurt a table: a short flush or write, an error that was    *)
(* ignored, a refused bulk_build, or an end of the process while a change  *)
(* was not saved.                                                          *)
THEOREM OpensHold == Spec => OpensUnlessHurt
<1>. DEFINE StartStops == pc = "load" /\ pc' = "down" /\ crashes' = crashes
            SaveStops == pc = "bind" /\ pc' = "idle"
<1>1. ASSUME Inv, Next, StartStops PROVE hurt' # {}
  <2>1. bulk_build_refused \/ \E t \in Tables : load_fails(t)
    BY <1>1 DEF Inv, Types, ProcessTypes, Next, Step, Statement, start, bulk_build, bulk_build_short,
       load_done, bind, bind_fails, sweep_done, sweep_fails, save_dat, save_dat_fails,
       save_dat_short, save_done, remove_done, remove_fails, load, load_old, sweep,
       save_index, save_index_fails, save_index_short, remove, create_database, drop_database,
       create_table, drop_table, change, change_fails, evict, crash, Goto, StatementEnds,
       control
  <2>2. CASE bulk_build_refused
    BY <2>2 DEF bulk_build_refused, Fault
  <2>3. ASSUME NEW t \in Tables, load_fails(t) PROVE hurt' # {}
    <3>1. t \notin touched /\ dat[t] # None /\ hurt' = hurt
      BY <1>1, <2>3 DEF Inv, Control, TablesInv, FilesInv, load_fails, history
    <3>2. t \in hurt
      BY <1>1, <2>3, <3>1, Distinct, DatFacts DEF Inv, Types, FileTypes, TablesInv,
         FilesInv, FilesAgree, Readable, Opens, load_fails
    <3>. QED
      BY <3>1, <3>2
  <2>. QED
    BY <2>1, <2>2, <2>3
<1>2. ASSUME Inv, Next, SaveStops PROVE hurt' # {}
  <2>1. bind_fails
    BY <1>2 DEF Next, Step, Statement, start, bulk_build, bulk_build_short, bulk_build_refused, load_fails,
       load_done, bind, sweep_done, sweep_fails, save_dat, save_dat_fails,
       save_dat_short, save_done, remove_done, remove_fails, load, load_old, sweep,
       save_index, save_index_fails, save_index_short, remove, create_database, drop_database,
       create_table, drop_table, change, change_fails, evict, crash, Goto, control
  <2>2. PICK t \in Tables : mem[t] # None /\ mem[t].index = NotOpen
    BY <2>1 DEF bind_fails, Existing
  <2>3. t \in hurt
    BY <1>2, <2>2, Distinct, TableFacts DEF Inv, Types, FileTypes, TablesInv, MemInv
  <2>. QED
    BY <2>1, <2>3 DEF bind_fails
<1>3. ASSUME Inv, [Next]_vars PROVE [StartStops \/ SaveStops => hurt' # {}]_vars
  BY <1>1, <1>2, <1>3
<1>. QED
  BY <1>3, InvHolds, PTL DEF Spec, OpensUnlessHurt

(* Only a statement on a table changes its rows in the files.              *)
THEOREM RowsAreKept == Spec => RowsKept
<1>. DEFINE Kept(t) == Readable(t) /\ t \notin touched \cup hurt \cup hurt' =>
                         dat'[t] # None /\ dat'[t].rows = dat[t].rows
<1>1. ASSUME Inv, NEW t \in Tables, NEW s \in Tables, sweep(s) \/ remove(s) PROVE Kept(t)
  <2>1. t \notin touched \cup hurt => Saved(t)
    BY <1>1 DEF Inv, TablesInv, FilesInv, sweep, remove
  <2>2. dat'[t] = dat[t] \/ (t = s /\ dat[t] # None)
    BY <1>1 DEF Inv, Types, FileTypes, sweep, remove, RemoveFile
  <2>3. mem[s] = None
    BY <1>1 DEF Inv, TablesInv, MemInv, Control, sweep, remove, Orphans, Existing
  <2>. QED
    BY <2>1, <2>2, <2>3 DEF Saved, Readable
<1>2. ASSUME Inv, NEW t \in Tables, save_dat PROVE Kept(t)
  <2>1. t \notin touched \cup hurt => Saved(t)
    BY <1>2 DEF Inv, TablesInv, FilesInv, save_dat
  <2>2. /\ cur \in Tables /\ mem[cur] # None /\ mem[cur].rows \in KeySets
        /\ dat' = [dat EXCEPT ![cur] = File(mem[cur].rows, 3)]
    BY <1>2, TableFacts DEF Inv, Types, FileTypes, ProcessTypes, TablesInv, MemInv,
       save_dat
  <2>. QED
    BY <2>1, <2>2, DatFacts DEF Saved, Readable
<1>3. ASSUME Inv, NEW t \in Tables, save_dat_short PROVE Kept(t)
  BY <1>3 DEF save_dat_short, Fault, Readable
<1>4. ASSUME Inv, Next, ~save_dat, ~save_dat_short,
             \A s \in Tables : ~sweep(s) /\ ~remove(s)
      PROVE  dat' = dat
  BY <1>4 DEF Next, Step, Statement, start, bulk_build, bulk_build_short, bulk_build_refused, load_fails,
     load_done, bind, bind_fails, sweep_done, sweep_fails, save_dat_fails, save_done,
     remove_done, remove_fails, load, load_old, save_index, save_index_fails, save_index_short,
     create_database, drop_database, create_table, drop_table, change, change_fails,
     evict, crash, files
<1>5. ASSUME Inv, [Next]_vars PROVE [\A t \in Tables : Kept(t)]_vars
  <2>. SUFFICES ASSUME Next, NEW t \in Tables PROVE Kept(t)
    BY <1>5
  <2>1. CASE dat' = dat
    BY <2>1 DEF Readable
  <2>. QED
    BY <1>1, <1>2, <1>3, <1>4, <1>5, <2>1
<1>. QED
  BY <1>5, InvHolds, PTL DEF Spec, RowsKept
=============================================================================
