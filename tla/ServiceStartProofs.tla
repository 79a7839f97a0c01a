------------------------- MODULE ServiceStartProofs -------------------------
(***************************************************************************)
(* What is recorded is applied, and who serves has its tables, for any     *)
(* number of hosts, workers and faults.                                    *)
(***************************************************************************)
EXTENDS ServiceStart, TLAPS

AppNames == {"user_center", "asset_center"}

\* The shape of the version files and of the lists of apps: nothing else is
\* used of them below.
LEMMA FilesShape ==
    /\ DOMAIN Files = AppNames
    /\ \A app \in AppNames :
         /\ Len(Files[app]) \in Nat /\ Len(Files[app]) >= 1
         /\ DOMAIN Files[app] = 1..Len(Files[app])
         /\ \A n \in 1..Len(Files[app]) :
              /\ Len(Files[app][n]) \in Nat /\ Len(Files[app][n]) >= 1
              /\ DOMAIN Files[app][n] = 1..Len(Files[app][n])
<1>1. DOMAIN Files = AppNames
  BY DEF Files, AppNames
<1>2. /\ Len(Files["user_center"]) = 2 /\ DOMAIN Files["user_center"] = 1..2
      /\ Files["user_center"][1] = InitUserCenter /\ Files["user_center"][2] = UpdateUserCenter
  BY DEF Files
<1>3. /\ Len(Files["asset_center"]) = 1 /\ DOMAIN Files["asset_center"] = 1..1
      /\ Files["asset_center"][1] = InitAssetCenter
  BY DEF Files
<1>4. /\ Len(InitUserCenter) = 2 /\ DOMAIN InitUserCenter = 1..2
      /\ Len(UpdateUserCenter) = 1 /\ DOMAIN UpdateUserCenter = 1..1
      /\ Len(InitAssetCenter) = 1 /\ DOMAIN InitAssetCenter = 1..1
  BY DEF InitUserCenter, UpdateUserCenter, InitAssetCenter
<1> HIDE DEF Files, InitUserCenter, UpdateUserCenter, InitAssetCenter
<1>5. \A n \in 1..2 : n = 1 \/ n = 2
  OBVIOUS
<1>6. \A n \in 1..1 : n = 1
  OBVIOUS
<1>7. ASSUME NEW app \in AppNames
      PROVE  /\ Len(Files[app]) \in Nat /\ Len(Files[app]) >= 1
             /\ DOMAIN Files[app] = 1..Len(Files[app])
             /\ \A n \in 1..Len(Files[app]) :
                  /\ Len(Files[app][n]) \in Nat /\ Len(Files[app][n]) >= 1
                  /\ DOMAIN Files[app][n] = 1..Len(Files[app][n])
  <2>1. CASE app = "user_center"
    <3>1. ASSUME NEW n \in 1..2
          PROVE  /\ Len(Files[app][n]) \in Nat /\ Len(Files[app][n]) >= 1
                 /\ DOMAIN Files[app][n] = 1..Len(Files[app][n])
      <4>1. CASE n = 1 BY <1>2, <1>4, <2>1, <4>1
      <4>2. CASE n = 2 BY <1>2, <1>4, <2>1, <4>2
      <4> QED BY <1>5, <4>1, <4>2
    <3> QED BY <1>2, <2>1, <3>1
  <2>2. CASE app = "asset_center"
    <3>1. ASSUME NEW n \in 1..1
          PROVE  /\ Len(Files[app][n]) \in Nat /\ Len(Files[app][n]) >= 1
                 /\ DOMAIN Files[app][n] = 1..Len(Files[app][n])
      BY <1>3, <1>4, <1>6, <2>2
    <3> QED BY <1>3, <2>2, <3>1
  <2> QED BY <2>1, <2>2 DEF AppNames
<1> QED BY <1>1, <1>7

LEMMA AppsShape ==
    ASSUME NEW h \in Hosts
    PROVE  /\ Len(Apps(h)) \in Nat /\ Len(Apps(h)) >= 1
           /\ DOMAIN Apps(h) = 1..Len(Apps(h))
           /\ \A i \in 1..Len(Apps(h)) : Apps(h)[i] \in AppNames
<1>1. CASE Service[h] = "root"
  BY <1>1 DEF Apps, AppNames
<1>2. CASE Service[h] # "root"
  BY <1>2 DEF Apps, AppNames
<1> QED BY <1>1, <1>2

-----------------------------------------------------------------------------
(* The invariant. *)

\* Every variable has its type.  The place of a host is said apart, so that
\* what TypeOK says of it can be kept folded.
Place(h) ==
    /\ at[h].app \in DOMAIN Apps(h)
    /\ at[h].file \in DOMAIN Files[App(h)]
    /\ at[h].stmt \in DOMAIN File(h)

\* at is a function to records.
AtType == at \in [Hosts -> [app: Nat, file: Nat, stmt: Nat]]

\* Everything before the place of a host has been applied.
Behind(h) ==
    /\ \A i \in 1..(at[h].app - 1) : TablesOfApp(Apps(h)[i]) \subseteq tables
    /\ \A n \in 1..(at[h].file - 1) : TablesOf(Files[App(h)][n]) \subseteq tables
    /\ \A k \in 1..(at[h].stmt - 1) : File(h)[k].table \in tables

Progress(h) ==
    /\ pc[h] # "down" => Behind(h)
    /\ pc[h] = "init" => at[h].file = 1
    /\ pc[h] \in {"init", "exists"} => at[h].stmt = 1
    /\ pc[h] = "record" => TablesOf(File(h)) \subseteq tables
    /\ pc[h] = "serve" =>
         \A i \in DOMAIN Apps(h) : TablesOfApp(Apps(h)[i]) \subseteq tables

\* Workers are the children of a process that serves.
Children == \A h \in Hosts, w \in Workers : worker[h][w] # "none" => pc[h] = "serve"

StartInv ==
    /\ TypeOK
    /\ AtType
    /\ \A h \in Hosts : Progress(h)
    /\ Children
    /\ RecordedIsApplied

-----------------------------------------------------------------------------
(* Lemmas. *)

\* Where a host is, in terms of the shapes.
LEMMA PlaceShape ==
    ASSUME TypeOK, NEW h \in Hosts
    PROVE  /\ at[h].app \in 1..Len(Apps(h)) /\ App(h) \in AppNames
           /\ at[h].file \in 1..Len(Files[App(h)])
           /\ at[h].stmt \in 1..Len(File(h)) /\ Len(File(h)) \in Nat
           /\ DOMAIN File(h) = 1..Len(File(h))
           /\ at[h].app \in Nat /\ at[h].file \in Nat /\ at[h].stmt \in Nat
<1>1. at[h].app \in DOMAIN Apps(h) /\ at[h].file \in DOMAIN Files[App(h)] /\ at[h].stmt \in DOMAIN File(h)
  BY DEF TypeOK
<1>2. at[h].app \in 1..Len(Apps(h)) /\ App(h) \in AppNames
  BY <1>1, AppsShape DEF App
<1>3. at[h].file \in 1..Len(Files[App(h)])
  BY <1>1, <1>2, FilesShape
<1>4. DOMAIN File(h) = 1..Len(File(h)) /\ Len(File(h)) \in Nat
  BY <1>2, <1>3, FilesShape DEF File
<1> QED BY <1>1, <1>2, <1>3, <1>4, AppsShape, FilesShape

\* The first statement of any file of any app is a place.
LEMMA FirstPlace ==
    ASSUME NEW h \in Hosts, NEW i \in 1..Len(Apps(h)), NEW n \in 1..Len(Files[Apps(h)[i]]),
           at'[h] = [app |-> i, file |-> n, stmt |-> 1]
    PROVE  Place(h)' /\ App(h)' = Apps(h)[i] /\ at'[h] \in [app: Nat, file: Nat, stmt: Nat]
<1>1. at'[h].app = i /\ at'[h].file = n /\ at'[h].stmt = 1
  OBVIOUS
<1>2. App(h)' = Apps(h)[i] /\ Apps(h)[i] \in AppNames
  BY <1>1, AppsShape DEF App, Apps
<1>3. File(h)' = Files[Apps(h)[i]][n]
  BY <1>1, <1>2 DEF File
<1>4. Len(Files[Apps(h)[i]][n]) >= 1 /\ DOMAIN Files[Apps(h)[i]][n] = 1..Len(Files[Apps(h)[i]][n])
      /\ Len(Files[Apps(h)[i]][n]) \in Nat
  BY <1>2, FilesShape
<1>5. i \in DOMAIN Apps(h) /\ n \in DOMAIN Files[Apps(h)[i]]
  BY <1>2, AppsShape, FilesShape
<1>6. 1 \in DOMAIN Files[Apps(h)[i]][n]
  BY <1>4
<1>7. i \in Nat /\ n \in Nat
  BY AppsShape, <1>2, FilesShape
<1> QED BY <1>1, <1>2, <1>3, <1>5, <1>6, <1>7 DEF Place

\* A host that does not move stays where its tables are.
LEMMA Unmoved ==
    ASSUME NEW g \in Hosts, pc'[g] = pc[g], at'[g] = at[g], tables \subseteq tables',
           Progress(g)
    PROVE  Progress(g)' /\ (Place(g) => Place(g)')
BY DEF Progress, Behind, Place, App, File, Apps

\* What it takes for the invariant of the hosts: the one that moves.
LEMMA OneMoves ==
    ASSUME StartInv, NEW h \in Hosts, tables \subseteq tables',
           \A g \in Hosts \ {h} : pc'[g] = pc[g] /\ at'[g] = at[g],
           Progress(h)', Place(h)'
    PROVE  \A g \in Hosts : Progress(g)' /\ Place(g)'
BY Unmoved DEF StartInv, TypeOK, Place

\* When the last file of an app is done, so is the app.
LEMMA AppDone ==
    ASSUME TypeOK, NEW h \in Hosts, Behind(h), TablesOf(File(h)) \subseteq tables,
           ~(at[h].file < Len(Files[App(h)]))
    PROVE  TablesOfApp(App(h)) \subseteq tables
<1>1. \A n \in 1..Len(Files[App(h)]) : n = at[h].file \/ n \in 1..(at[h].file - 1)
  BY PlaceShape, FilesShape
<1>2. \A n \in DOMAIN Files[App(h)] : TablesOf(Files[App(h)][n]) \subseteq tables
  BY <1>1, PlaceShape, FilesShape DEF Behind, File
<1> QED BY <1>2 DEF TablesOfApp

\* Going on after a version that has been applied.
LEMMA NextFileStep ==
    ASSUME StartInv, NEW h \in Hosts, pc[h] # "down", TablesOf(File(h)) \subseteq tables,
           tables' = tables, NextFile(h)
    PROVE  /\ Progress(h)' /\ Place(h)' /\ AtType'
           /\ pc' \in [Hosts -> {"down", "init", "exists", "script", "record", "serve"}]
           /\ \A g \in Hosts \ {h} : pc'[g] = pc[g] /\ at'[g] = at[g]
<1> DEFINE i == at[h].app  n == at[h].file
<1>1. TypeOK /\ AtType /\ Behind(h)
  BY DEF StartInv, Progress
<1>2. /\ i \in 1..Len(Apps(h)) /\ App(h) \in AppNames /\ App(h) = Apps(h)[i]
      /\ n \in 1..Len(Files[App(h)]) /\ i \in Nat /\ n \in Nat
      /\ Len(Apps(h)) \in Nat /\ Len(Files[App(h)]) \in Nat
  BY <1>1, PlaceShape, AppsShape, FilesShape DEF App
<1>3. CASE n < Len(Files[App(h)])
  <2>1. at' = [at EXCEPT ![h] = [app |-> i, file |-> n + 1, stmt |-> 1]] /\ pc' = [pc EXCEPT ![h] = "exists"]
    BY <1>3 DEF NextFile, Goto
  <2>2. at'[h] = [app |-> i, file |-> n + 1, stmt |-> 1] /\ pc'[h] = "exists"
    BY <1>1, <2>1 DEF AtType, TypeOK
  <2>3. n + 1 \in 1..Len(Files[Apps(h)[i]])
    BY <1>2, <1>3
  <2>4. Place(h)' /\ App(h)' = App(h) /\ at'[h] \in [app: Nat, file: Nat, stmt: Nat]
    BY <1>2, <2>2, <2>3, FirstPlace
  <2>5. \A m \in 1..(n + 1 - 1) : TablesOf(Files[App(h)][m]) \subseteq tables
    <3>1. \A m \in 1..(n + 1 - 1) : m = n \/ m \in 1..(n - 1)
      BY <1>2
    <3> QED BY <1>1, <3>1 DEF Behind, File
  <2>6. at'[h].app = i /\ at'[h].file = n + 1 /\ at'[h].stmt = 1
    BY <2>2
  <2>7. Behind(h)'
    <3>1. \A j \in 1..(at'[h].app - 1) : TablesOfApp(Apps(h)[j]) \subseteq tables'
      BY <1>1, <2>6 DEF Behind
    <3>2. \A m \in 1..(at'[h].file - 1) : TablesOf(Files[App(h)'][m]) \subseteq tables'
      BY <1>2, <2>4, <2>5, <2>6
    <3>3. \A k \in 1..(at'[h].stmt - 1) : FALSE
      BY <2>6
    <3> QED BY <3>1, <3>2, <3>3 DEF Behind, Apps
  <2>8. Progress(h)'
    BY <2>2, <2>6, <2>7 DEF Progress
  <2> QED BY <1>1, <2>1, <2>4, <2>8 DEF AtType, TypeOK
<1>4. CASE ~(n < Len(Files[App(h)])) /\ i < Len(Apps(h))
  <2>1. at' = [at EXCEPT ![h] = [app |-> i + 1, file |-> 1, stmt |-> 1]] /\ pc' = [pc EXCEPT ![h] = "init"]
    BY <1>4 DEF NextFile, Goto
  <2>2. at'[h] = [app |-> i + 1, file |-> 1, stmt |-> 1] /\ pc'[h] = "init"
    BY <1>1, <2>1 DEF AtType, TypeOK
  <2>3. i + 1 \in 1..Len(Apps(h)) /\ 1 \in 1..Len(Files[Apps(h)[i + 1]])
    BY <1>2, <1>4, AppsShape, FilesShape
  <2>4. Place(h)' /\ at'[h] \in [app: Nat, file: Nat, stmt: Nat]
    BY <2>2, <2>3, FirstPlace
  <2>5. TablesOfApp(Apps(h)[i]) \subseteq tables
    BY <1>1, <1>2, <1>4, AppDone
  <2>6. \A j \in 1..(i + 1 - 1) : TablesOfApp(Apps(h)[j]) \subseteq tables
    <3>1. \A j \in 1..(i + 1 - 1) : j = i \/ j \in 1..(i - 1)
      BY <1>2
    <3> QED BY <1>1, <2>5, <3>1 DEF Behind
  <2>7. at'[h].app = i + 1 /\ at'[h].file = 1 /\ at'[h].stmt = 1
    BY <2>2
  <2>8. Behind(h)'
    <3>1. \A j \in 1..(at'[h].app - 1) : TablesOfApp(Apps(h)[j]) \subseteq tables'
      BY <1>2, <2>6, <2>7
    <3>2. \A m \in 1..(at'[h].file - 1) : FALSE
      BY <2>7
    <3>3. \A k \in 1..(at'[h].stmt - 1) : FALSE
      BY <2>7
    <3> QED BY <3>1, <3>2, <3>3 DEF Behind, Apps
  <2>9. Progress(h)'
    BY <2>2, <2>7, <2>8 DEF Progress
  <2> QED BY <1>1, <2>1, <2>4, <2>9 DEF AtType, TypeOK
<1>5. CASE ~(n < Len(Files[App(h)])) /\ ~(i < Len(Apps(h)))
  <2>1. at' = at /\ pc' = [pc EXCEPT ![h] = "serve"]
    BY <1>5 DEF NextFile, Goto
  <2>2. pc'[h] = "serve"
    BY <1>1, <2>1 DEF TypeOK
  <2>3. Place(h)'
    BY <1>1, <2>1 DEF TypeOK, Place, App, File, Apps
  <2>4. \A j \in DOMAIN Apps(h) : TablesOfApp(Apps(h)[j]) \subseteq tables
    <3>1. \A j \in DOMAIN Apps(h) : j = i \/ j \in 1..(i - 1)
      BY <1>2, <1>5, AppsShape
    <3>2. TablesOfApp(Apps(h)[i]) \subseteq tables
      BY <1>1, <1>2, <1>5, AppDone
    <3> QED BY <1>1, <3>1, <3>2 DEF Behind
  <2>5. Behind(h)'
    BY <1>1, <2>1 DEF Behind, Apps, App, File
  <2>6. Progress(h)'
    BY <2>2, <2>4, <2>5 DEF Progress, Apps
  <2> QED BY <1>1, <2>1, <2>3, <2>6 DEF AtType, TypeOK
<1> QED BY <1>3, <1>4, <1>5

\* Executing the statement a host is at.
LEMMA Created ==
    ASSUME TypeOK, NEW h \in Hosts
    PROVE  /\ Statement(h).table \in TablesOf(File(h))
           /\ Statement(h).table \in UNION {TablesOfApp(app) : app \in DOMAIN Files}
<1>1. /\ App(h) \in DOMAIN Files /\ at[h].file \in DOMAIN Files[App(h)]
      /\ at[h].stmt \in DOMAIN File(h)
  BY PlaceShape, FilesShape DEF TypeOK
<1>2. Statement(h).table \in TablesOf(File(h))
  BY <1>1 DEF Statement, TablesOf
<1>3. TablesOf(File(h)) \subseteq TablesOfApp(App(h))
  BY <1>1 DEF TablesOfApp, File
<1> QED BY <1>1, <1>2, <1>3

\* Recording the version a host is at.
LEMMA Recorded ==
    ASSUME TypeOK, RecordedIsApplied, NEW h \in Hosts, Behind(h), TablesOf(File(h)) \subseteq tables
    PROVE  /\ Version(h) \in Versions
           /\ \A n \in 1..Version(h)[2] : TablesOf(Files[Version(h)[1]][n]) \subseteq tables
<1>1. App(h) \in DOMAIN Files /\ at[h].file \in DOMAIN Files[App(h)] /\ at[h].file \in Nat
  BY PlaceShape, FilesShape DEF TypeOK
<1>2. \A n \in 1..at[h].file : n = at[h].file \/ n \in 1..(at[h].file - 1)
  BY <1>1
<1>3. \A n \in 1..at[h].file : TablesOf(Files[App(h)][n]) \subseteq tables
  BY <1>2 DEF Behind, File
<1>4. Version(h)[1] = App(h) /\ Version(h)[2] = at[h].file
  BY DEF Version
<1>5. Version(h) \in {App(h)} \X DOMAIN Files[App(h)]
  BY <1>1 DEF Version
<1>6. Version(h) \in Versions
  BY <1>1, <1>5 DEF Versions
<1> QED BY <1>3, <1>4, <1>6

\* A process that ends takes its workers along.
LEMMA ExitStep ==
    ASSUME StartInv, NEW h \in Hosts, Exit(h), tables \subseteq tables'
    PROVE  /\ \A g \in Hosts : Progress(g)' /\ Place(g)'
           /\ AtType' /\ Children'
           /\ pc' \in [Hosts -> {"down", "init", "exists", "script", "record", "serve"}]
           /\ worker' \in [Hosts -> [Workers -> {"none", "boot", "ready"}]]
<1>1. /\ pc' = [pc EXCEPT ![h] = "down"] /\ at' = at
      /\ worker' = [worker EXCEPT ![h] = [w \in Workers |-> "none"]]
  BY DEF Exit, Goto
<1>2. /\ pc \in [Hosts -> {"down", "init", "exists", "script", "record", "serve"}]
      /\ worker \in [Hosts -> [Workers -> {"none", "boot", "ready"}]]
      /\ Place(h) /\ AtType /\ Children
  BY DEF StartInv, TypeOK, Place
<1>3. pc'[h] = "down" /\ \A g \in Hosts \ {h} : pc'[g] = pc[g] /\ at'[g] = at[g]
  BY <1>1, <1>2
<1>4. Progress(h)'
  BY <1>3 DEF Progress
<1>5. Place(h)'
  BY <1>1, <1>2 DEF Place, App, File, Apps
<1>6. \A g \in Hosts : Progress(g)' /\ Place(g)'
  BY <1>3, <1>4, <1>5, OneMoves
<1>7. Children'
  BY <1>1, <1>2 DEF Children
<1>8. worker' \in [Hosts -> [Workers -> {"none", "boot", "ready"}]]
  BY <1>1, <1>2
<1> QED BY <1>1, <1>2, <1>6, <1>7, <1>8 DEF AtType

-----------------------------------------------------------------------------
(* The steps. *)

PCType == pc \in [Hosts -> {"down", "init", "exists", "script", "record", "serve"}]
WorkerType == worker \in [Hosts -> [Workers -> {"none", "boot", "ready"}]]

\* TypeOK, with Place folded.
Parts ==
    /\ tables \subseteq UNION {TablesOfApp(app) : app \in DOMAIN Files}
    /\ records \subseteq Versions
    /\ PCType
    /\ \A h \in Hosts : Place(h)
    /\ WorkerType
    /\ faults \in 0..MaxFaults
    /\ hit \in [Hosts -> BOOLEAN]

LEMMA TypeParts == TypeOK <=> Parts
BY DEF TypeOK, Parts, PCType, WorkerType, Place

LEMMA TypePartsNext == TypeOK' <=> Parts'
BY DEF TypeOK, Parts, PCType, WorkerType, Place

\* A step with a fault or without.
LEMMA FaultTypes ==
    ASSUME TypeOK, NEW h \in Hosts,
           \/ faults' = faults /\ hit' = hit
           \/ faults < MaxFaults /\ faults' = faults + 1 /\ hit' = [hit EXCEPT ![h] = TRUE]
    PROVE  faults' \in 0..MaxFaults /\ hit' \in [Hosts -> BOOLEAN]
<1>1. faults \in 0..MaxFaults /\ hit \in [Hosts -> BOOLEAN]
  BY TypeParts DEF Parts
<1>2. CASE faults' = faults /\ hit' = hit
  BY <1>1, <1>2
<1>3. CASE faults < MaxFaults /\ faults' = faults + 1 /\ hit' = [hit EXCEPT ![h] = TRUE]
  <2>1. hit' \in [Hosts -> BOOLEAN]
    BY <1>1, <1>3
  <2>2. faults' \in 0..MaxFaults
    BY <1>1, <1>3, MaxFaultsAssumption
  <2> QED BY <2>1, <2>2
<1> QED BY <1>2, <1>3

\* Tables only come: what was recorded stays applied.
LEMMA StillApplied ==
    ASSUME RecordedIsApplied, tables \subseteq tables', records' = records
    PROVE  RecordedIsApplied'
BY DEF RecordedIsApplied

\* The process on h goes on and leaves the workers alone: none is there.
LEMMA ChildrenStay ==
    ASSUME StartInv, NEW h \in Hosts, pc[h] # "serve", worker' = worker,
           \A g \in Hosts \ {h} : pc'[g] = pc[g]
    PROVE  Children'
BY DEF StartInv, Children

LEMMA StartStep == ASSUME StartInv, NEW h \in Hosts, Start(h) PROVE StartInv'
<1>1. /\ pc[h] = "down" /\ pc' = [pc EXCEPT ![h] = "init"]
      /\ at' = [at EXCEPT ![h] = [app |-> 1, file |-> 1, stmt |-> 1]]
      /\ hit' = [hit EXCEPT ![h] = FALSE]
      /\ UNCHANGED <<tables, records, worker, faults>>
  BY DEF Start, Goto
<1>2. TypeOK /\ AtType /\ RecordedIsApplied /\ PCType
  BY TypeParts DEF Parts, StartInv
<1>3. at'[h] = [app |-> 1, file |-> 1, stmt |-> 1] /\ pc'[h] = "init"
  BY <1>1, <1>2 DEF AtType, PCType
<1>4. 1 \in 1..Len(Apps(h)) /\ 1 \in 1..Len(Files[Apps(h)[1]])
  BY AppsShape, FilesShape
<1>5. Place(h)' /\ at'[h] \in [app: Nat, file: Nat, stmt: Nat]
  BY <1>3, <1>4, FirstPlace
<1>6. at'[h].app = 1 /\ at'[h].file = 1 /\ at'[h].stmt = 1
  BY <1>3
<1>7. Behind(h)'
  BY <1>6 DEF Behind
<1>8. Progress(h)'
  BY <1>3, <1>6, <1>7 DEF Progress
<1>9. \A g \in Hosts \ {h} : pc'[g] = pc[g] /\ at'[g] = at[g]
  BY <1>1, <1>2 DEF PCType, AtType
<1>10. \A g \in Hosts : Progress(g)' /\ Place(g)'
  BY <1>1, <1>5, <1>8, <1>9, OneMoves
<1>11. PCType' /\ AtType'
  BY <1>1, <1>2, <1>5 DEF PCType, AtType
<1>12. TypeOK'
  BY <1>1, <1>2, <1>10, <1>11, TypeParts, TypePartsNext DEF Parts, WorkerType
<1>13. Children' /\ RecordedIsApplied'
  BY <1>1, <1>2, <1>9, ChildrenStay, StillApplied
<1> QED BY <1>10, <1>11, <1>12, <1>13 DEF StartInv

LEMMA InitCommandStep == ASSUME StartInv, NEW h \in Hosts, InitCommand(h) PROVE StartInv'
<1>1. /\ pc[h] = "init" /\ pc' = [pc EXCEPT ![h] = "exists"]
      /\ UNCHANGED <<tables, records, at, worker, faults, hit>>
  BY DEF InitCommand, Goto
<1>2. TypeOK /\ AtType /\ RecordedIsApplied /\ PCType /\ Place(h) /\ Progress(h)
  BY TypeParts DEF Parts, StartInv
<1>3. pc'[h] = "exists" /\ \A g \in Hosts \ {h} : pc'[g] = pc[g] /\ at'[g] = at[g]
  BY <1>1, <1>2 DEF PCType
<1>4. Place(h)'
  BY <1>1, <1>2 DEF Place, App, File, Apps
<1>5. Progress(h)'
  BY <1>1, <1>2, <1>3 DEF Progress, Behind, App, File, Apps
<1>6. \A g \in Hosts : Progress(g)' /\ Place(g)'
  BY <1>1, <1>3, <1>4, <1>5, OneMoves
<1>7. PCType' /\ AtType'
  BY <1>1, <1>2 DEF PCType, AtType
<1>8. TypeOK'
  BY <1>1, <1>2, <1>6, <1>7, TypeParts, TypePartsNext DEF Parts, WorkerType
<1>9. Children' /\ RecordedIsApplied'
  BY <1>1, <1>2, <1>3, ChildrenStay, StillApplied
<1> QED BY <1>6, <1>7, <1>8, <1>9 DEF StartInv

\* Both answers to the question, the one that is a failure included.
LEMMA ExistsStep ==
    ASSUME StartInv, NEW h \in Hosts, Exists(h) \/ ExistsFails(h) PROVE StartInv'
<1>1. /\ pc[h] = "exists"
      /\ UNCHANGED <<tables, records, worker>>
      /\ \/ faults' = faults /\ hit' = hit
         \/ faults < MaxFaults /\ faults' = faults + 1 /\ hit' = [hit EXCEPT ![h] = TRUE]
  BY DEF Exists, ExistsFails, Fault
<1>2. TypeOK /\ AtType /\ RecordedIsApplied /\ PCType /\ Place(h) /\ Progress(h)
  BY TypeParts DEF Parts, StartInv
<1>3. faults' \in 0..MaxFaults /\ hit' \in [Hosts -> BOOLEAN]
  BY <1>1, <1>2, FaultTypes
<1>4. /\ \A g \in Hosts : Progress(g)' /\ Place(g)'
      /\ PCType' /\ AtType'
      /\ \A g \in Hosts \ {h} : pc'[g] = pc[g] /\ at'[g] = at[g]
  <2>1. CASE "aerich" \in tables /\ Version(h) \in records /\ Exists(h)
    <3>1. NextFile(h)
      BY <2>1 DEF Exists
    <3>2. Version(h)[1] = App(h) /\ Version(h)[2] = at[h].file /\ at[h].file \in Nat /\ at[h].file >= 1
      BY <1>2, PlaceShape, FilesShape DEF Version
    <3>3. TablesOf(File(h)) \subseteq tables
      BY <1>2, <2>1, <3>2 DEF RecordedIsApplied, File
    <3>4. /\ Progress(h)' /\ Place(h)' /\ AtType' /\ PCType'
          /\ \A g \in Hosts \ {h} : pc'[g] = pc[g] /\ at'[g] = at[g]
      BY <1>1, <3>1, <3>3, NextFileStep DEF PCType
    <3> QED BY <1>1, <3>4, OneMoves
  <2>2. CASE pc' = [pc EXCEPT ![h] = "script"] /\ at' = at
    <3>1. pc'[h] = "script" /\ \A g \in Hosts \ {h} : pc'[g] = pc[g] /\ at'[g] = at[g]
      BY <1>2, <2>2 DEF PCType
    <3>2. Place(h)'
      BY <1>2, <2>2 DEF Place, App, File, Apps
    <3>3. Progress(h)'
      BY <1>1, <1>2, <2>2, <3>1 DEF Progress, Behind, App, File, Apps
    <3>4. PCType' /\ AtType'
      BY <1>2, <2>2 DEF PCType, AtType
    <3> QED BY <1>1, <3>1, <3>2, <3>3, <3>4, OneMoves
  <2> QED BY <2>1, <2>2 DEF Exists, ExistsFails, Goto
<1>5. TypeOK'
  BY <1>1, <1>2, <1>3, <1>4, TypeParts, TypePartsNext DEF Parts, WorkerType
<1>6. Children' /\ RecordedIsApplied'
  BY <1>1, <1>2, <1>4, ChildrenStay, StillApplied
<1> QED BY <1>4, <1>5, <1>6 DEF StartInv

LEMMA CreateTableStep == ASSUME StartInv, NEW h \in Hosts, CreateTable(h) PROVE StartInv'
<1>1. pc[h] = "script" /\ UNCHANGED <<records, faults, hit>>
  BY DEF CreateTable
<1>2. TypeOK /\ AtType /\ RecordedIsApplied /\ PCType /\ Place(h) /\ Progress(h) /\ Behind(h)
  BY <1>1, TypeParts DEF Parts, StartInv, Progress
<1>3. CASE Exit(h) /\ tables' = tables
  <2>1. TypeOK'
    BY <1>1, <1>2, <1>3, ExitStep, TypeParts, TypePartsNext DEF Parts, PCType, WorkerType
  <2> QED BY <1>1, <1>2, <1>3, <2>1, ExitStep, StillApplied DEF StartInv
<1>4. CASE /\ tables' = tables \union {Statement(h).table}
           /\ worker' = worker
           /\ \/ /\ at[h].stmt < Len(File(h))
                 /\ at' = [at EXCEPT ![h].stmt = @ + 1] /\ pc' = pc
              \/ /\ ~(at[h].stmt < Len(File(h)))
                 /\ pc' = [pc EXCEPT ![h] = "record"] /\ at' = at
  <2>1. tables \subseteq tables' /\ Statement(h).table \in tables'
    BY <1>4
  <2>2. /\ at[h].stmt \in 1..Len(File(h)) /\ Len(File(h)) \in Nat /\ at[h].stmt \in Nat
        /\ DOMAIN File(h) = 1..Len(File(h))
    BY <1>2, PlaceShape
  <2>3. \A k \in 1..at[h].stmt : File(h)[k].table \in tables'
    <3>1. \A k \in 1..at[h].stmt : k = at[h].stmt \/ k \in 1..(at[h].stmt - 1)
      BY <2>2
    <3> QED BY <1>2, <2>1, <3>1 DEF Behind, Statement
  <2>4. /\ \A g \in Hosts : Progress(g)' /\ Place(g)'
        /\ PCType' /\ AtType'
        /\ \A g \in Hosts \ {h} : pc'[g] = pc[g] /\ at'[g] = at[g]
    <3>1. CASE at[h].stmt < Len(File(h)) /\ at' = [at EXCEPT ![h].stmt = @ + 1] /\ pc' = pc
      <4>1. at'[h].app = at[h].app /\ at'[h].file = at[h].file /\ at'[h].stmt = at[h].stmt + 1
            /\ \A g \in Hosts \ {h} : at'[g] = at[g]
        BY <1>2, <3>1 DEF AtType
      <4>2. App(h)' = App(h) /\ File(h)' = File(h)
        BY <4>1 DEF App, File, Apps
      <4>3. Place(h)'
        BY <1>2, <2>2, <3>1, <4>1, <4>2 DEF Place, Apps
      <4>4. \A k \in 1..(at'[h].stmt - 1) : k \in 1..at[h].stmt
        BY <2>2, <4>1
      <4>5. Behind(h)'
        BY <1>2, <2>1, <2>3, <4>1, <4>2, <4>4 DEF Behind, Apps
      <4>6. Progress(h)'
        BY <1>1, <3>1, <4>5 DEF Progress
      <4>7. AtType' /\ PCType'
        BY <1>2, <2>2, <3>1 DEF AtType, PCType
      <4> QED BY <2>1, <3>1, <4>1, <4>3, <4>6, <4>7, OneMoves
    <3>2. CASE ~(at[h].stmt < Len(File(h))) /\ pc' = [pc EXCEPT ![h] = "record"] /\ at' = at
      <4>1. pc'[h] = "record" /\ \A g \in Hosts \ {h} : pc'[g] = pc[g] /\ at'[g] = at[g]
        BY <1>2, <3>2 DEF PCType
      <4>2. App(h)' = App(h) /\ File(h)' = File(h)
        BY <3>2 DEF App, File, Apps
      <4>3. at[h].stmt = Len(File(h))
        BY <2>2, <3>2
      <4>4. TablesOf(File(h)) \subseteq tables'
        BY <2>2, <2>3, <4>3 DEF TablesOf
      <4>5. Place(h)'
        BY <1>2, <3>2, <4>2 DEF Place, Apps
      <4>6. Behind(h)'
        BY <1>2, <2>1, <3>2, <4>2 DEF Behind, Apps
      <4>7. Progress(h)'
        BY <4>1, <4>2, <4>4, <4>6 DEF Progress
      <4>8. AtType' /\ PCType'
        BY <1>2, <3>2 DEF AtType, PCType
      <4> QED BY <2>1, <4>1, <4>5, <4>7, <4>8, OneMoves
    <3> QED BY <1>4, <3>1, <3>2
  <2>5. tables' \subseteq UNION {TablesOfApp(app) : app \in DOMAIN Files}
    BY <1>2, <1>4, Created, TypeParts DEF Parts
  <2>6. TypeOK'
    BY <1>1, <1>2, <1>4, <2>4, <2>5, TypeParts, TypePartsNext DEF Parts, WorkerType
  <2>7. Children' /\ RecordedIsApplied'
    BY <1>1, <1>2, <1>4, <2>1, <2>4, ChildrenStay, StillApplied
  <2> QED BY <2>4, <2>6, <2>7 DEF StartInv
<1> QED BY <1>3, <1>4 DEF CreateTable, Goto

LEMMA RecordStep == ASSUME StartInv, NEW h \in Hosts, Record(h) PROVE StartInv'
<1>1. pc[h] = "record" /\ UNCHANGED <<tables, faults, hit>>
  BY DEF Record
<1>2. /\ TypeOK /\ AtType /\ RecordedIsApplied /\ PCType /\ Behind(h)
      /\ TablesOf(File(h)) \subseteq tables
  BY <1>1, TypeParts DEF Parts, StartInv, Progress
<1>3. CASE Exit(h) /\ records' = records
  <2>1. TypeOK'
    BY <1>1, <1>2, <1>3, ExitStep, TypeParts, TypePartsNext DEF Parts, PCType, WorkerType
  <2> QED BY <1>1, <1>2, <1>3, <2>1, ExitStep, StillApplied DEF StartInv
<1>4. CASE records' = records \union {Version(h)} /\ NextFile(h) /\ worker' = worker
  <2>1. /\ Progress(h)' /\ Place(h)' /\ AtType' /\ PCType'
        /\ \A g \in Hosts \ {h} : pc'[g] = pc[g] /\ at'[g] = at[g]
    BY <1>1, <1>2, <1>4, NextFileStep DEF PCType
  <2>2. \A g \in Hosts : Progress(g)' /\ Place(g)'
    BY <1>1, <2>1, OneMoves
  <2>3. records' \subseteq Versions /\ RecordedIsApplied'
    BY <1>1, <1>2, <1>4, Recorded, TypeParts DEF Parts, RecordedIsApplied
  <2>4. TypeOK'
    BY <1>1, <1>2, <1>4, <2>1, <2>2, <2>3, TypeParts, TypePartsNext DEF Parts, WorkerType
  <2>5. Children'
    BY <1>1, <1>4, <2>1, ChildrenStay
  <2> QED BY <2>1, <2>2, <2>3, <2>4, <2>5 DEF StartInv
<1> QED BY <1>3, <1>4 DEF Record

\* A host is lost; the statement it waited for was executed or not.
LEMMA LostStep ==
    ASSUME StartInv, NEW h \in Hosts, Lost(h) \/ LostUnanswered(h) PROVE StartInv'
<1>1. /\ Exit(h) /\ pc[h] # "down"
      /\ faults < MaxFaults /\ faults' = faults + 1 /\ hit' = [hit EXCEPT ![h] = TRUE]
  BY DEF Lost, LostUnanswered, Fault
<1>2. TypeOK /\ RecordedIsApplied /\ Behind(h)
      /\ (pc[h] = "record" => TablesOf(File(h)) \subseteq tables)
  BY <1>1 DEF StartInv, Progress
<1>3. faults' \in 0..MaxFaults /\ hit' \in [Hosts -> BOOLEAN]
  BY <1>1, <1>2, FaultTypes
<1>4. /\ tables \subseteq tables' /\ tables' \subseteq UNION {TablesOfApp(app) : app \in DOMAIN Files}
      /\ records' \subseteq Versions /\ RecordedIsApplied'
  <2>1. CASE records' = records /\ tables' \in {tables, tables \union {Statement(h).table}}
    BY <1>2, <2>1, Created, StillApplied, TypeParts DEF Parts
  <2>2. CASE pc[h] = "record" /\ records' = records \union {Version(h)} /\ tables' = tables
    BY <1>2, <2>2, Recorded, TypeParts DEF Parts, RecordedIsApplied
  <2> QED BY <2>1, <2>2 DEF Lost, LostUnanswered
<1>5. TypeOK'
  BY <1>1, <1>3, <1>4, ExitStep, TypeParts, TypePartsNext DEF Parts, PCType, WorkerType
<1> QED BY <1>1, <1>4, <1>5, ExitStep DEF StartInv

\* The steps of workers that leave their parent alone, which serves.
LEMMA WorkerStep ==
    ASSUME StartInv, NEW h \in Hosts, NEW w \in Workers,
           Fork(h, w) \/ BootRoot(h, w) \/ WorkerEnds(h, w) \/ WorkerLost(h, w)
    PROVE  StartInv'
<1>1. TypeOK /\ AtType /\ RecordedIsApplied /\ PCType /\ WorkerType /\ Children
  BY TypeParts DEF Parts, StartInv
<1>2. /\ UNCHANGED <<tables, records, pc, at>>
      /\ \/ faults' = faults /\ hit' = hit
         \/ faults < MaxFaults /\ faults' = faults + 1 /\ hit' = [hit EXCEPT ![h] = TRUE]
      /\ pc[h] = "serve"
  BY <1>1 DEF Fork, BootRoot, WorkerEnds, WorkerLost, Fault, Children
<1>3. \E s \in {"none", "boot", "ready"} : worker' = [worker EXCEPT ![h][w] = s]
  BY DEF Fork, BootRoot, WorkerEnds, WorkerLost
<1>4. faults' \in 0..MaxFaults /\ hit' \in [Hosts -> BOOLEAN]
  BY <1>1, <1>2, FaultTypes
<1>5. \A g \in Hosts : Progress(g)' /\ Place(g)'
  BY <1>1, <1>2, Unmoved, TypeParts DEF Parts, StartInv
<1>6. WorkerType' /\ PCType' /\ AtType'
  BY <1>1, <1>2, <1>3 DEF WorkerType, PCType, AtType
<1>7. TypeOK'
  BY <1>1, <1>2, <1>4, <1>5, <1>6, TypeParts, TypePartsNext DEF Parts
<1>8. Children'
  BY <1>1, <1>2, <1>3 DEF WorkerType, Children
<1>9. RecordedIsApplied'
  BY <1>1, <1>2, StillApplied
<1> QED BY <1>5, <1>6, <1>7, <1>8, <1>9 DEF StartInv

LEMMA BootUserStep ==
    ASSUME StartInv, NEW h \in Hosts, NEW w \in Workers, BootUser(h, w) PROVE StartInv'
<1>1. Exit(h) /\ UNCHANGED <<tables, records, faults, hit>>
  BY DEF BootUser
<1>2. TypeOK'
  BY <1>1, ExitStep, TypeParts, TypePartsNext DEF Parts, StartInv, PCType, WorkerType
<1> QED BY <1>1, <1>2, ExitStep, StillApplied DEF StartInv

-----------------------------------------------------------------------------
(* The theorems. *)

LEMMA StartInvInit == Init => StartInv
<1> SUFFICES ASSUME Init PROVE StartInv
  OBVIOUS
<1>1. \A h \in Hosts : pc[h] = "down" /\ at[h] = [app |-> 1, file |-> 1, stmt |-> 1]
  BY DEF Init
<1>2. ASSUME NEW h \in Hosts PROVE Place(h)
  <2>1. at[h].app = 1 /\ at[h].file = 1 /\ at[h].stmt = 1
    BY <1>1, <1>2
  <2>2. App(h) = Apps(h)[1] /\ Apps(h)[1] \in AppNames /\ 1 \in DOMAIN Apps(h)
    BY <2>1, AppsShape DEF App
  <2>3. 1 \in DOMAIN Files[App(h)] /\ File(h) = Files[App(h)][1]
    BY <2>1, <2>2, FilesShape DEF File
  <2>4. 1 \in DOMAIN File(h)
    BY <2>2, <2>3, FilesShape
  <2> QED BY <2>1, <2>2, <2>3, <2>4 DEF Place
<1>3. TypeOK
  BY <1>2, TypeParts, MaxFaultsAssumption DEF Parts, Init, PCType, WorkerType
<1>4. AtType /\ Children /\ RecordedIsApplied
  BY DEF Init, AtType, Children, RecordedIsApplied
<1>5. \A h \in Hosts : Progress(h)
  BY <1>1 DEF Progress
<1> QED BY <1>3, <1>4, <1>5 DEF StartInv

LEMMA StartInvNext == StartInv /\ [Next]_vars => StartInv'
<1> SUFFICES ASSUME StartInv, [Next]_vars PROVE StartInv'
  OBVIOUS
<1>1. CASE UNCHANGED vars
  <2>1. UNCHANGED <<tables, records, pc, at, worker, faults, hit>>
    BY <1>1 DEF vars
  <2>2. \A g \in Hosts : Progress(g)' /\ Place(g)'
    BY <2>1, Unmoved, TypeParts DEF Parts, StartInv
  <2>3. TypeOK' /\ AtType' /\ Children'
    BY <2>1, <2>2, TypeParts, TypePartsNext DEF Parts, StartInv, PCType, WorkerType, AtType, Children
  <2> QED BY <2>1, <2>2, <2>3, StillApplied DEF StartInv
<1>2. CASE Next
  <2>1. PICK h \in Hosts :
          \/ Start(h) \/ Upgrade(h)
          \/ \E w \in Workers : Fork(h, w) \/ Boot(h, w) \/ WorkerEnds(h, w) \/ WorkerLost(h, w)
          \/ Lost(h) \/ LostUnanswered(h) \/ ExistsFails(h)
    BY <1>2 DEF Next
  <2>2. CASE Start(h) BY <2>2, StartStep
  <2>3. CASE Upgrade(h)
    BY <2>3, InitCommandStep, ExistsStep, CreateTableStep, RecordStep DEF Upgrade
  <2>4. CASE \E w \in Workers : Fork(h, w) \/ Boot(h, w) \/ WorkerEnds(h, w) \/ WorkerLost(h, w)
    BY <2>4, WorkerStep, BootUserStep DEF Boot
  <2>5. CASE Lost(h) \/ LostUnanswered(h) BY <2>5, LostStep
  <2>6. CASE ExistsFails(h) BY <2>6, ExistsStep
  <2> QED BY <2>1, <2>2, <2>3, <2>4, <2>5, <2>6
<1> QED BY <1>1, <1>2

LEMMA StartInvariant == Spec => []StartInv
BY StartInvInit, StartInvNext, PTL DEF Spec

\* The types of the variables, and that no host gets beyond the version files
\* that the loops of before_server_start and aerich go through.
THEOREM StartTypes == Spec => []TypeOK
<1>1. StartInv => TypeOK
  BY DEF StartInv
<1> QED BY <1>1, StartInvariant, PTL

\* What a later start would skip is there, however many hosts upgrade at once
\* and wherever they are lost.
THEOREM RecordsAreTrue == Spec => []RecordedIsApplied
<1>1. StartInv => RecordedIsApplied
  BY DEF StartInv
<1> QED BY <1>1, StartInvariant, PTL

\* main.py lets no worker serve before the tables of its application exist.
THEOREM NobodyServesEarly == Spec => []ServesMigrated
<1>1. StartInv => ServesMigrated
  <2> SUFFICES ASSUME StartInv, NEW h \in Hosts, NEW w \in Workers, worker[h][w] = "ready"
               PROVE  \A i \in DOMAIN Apps(h) : TablesOfApp(Apps(h)[i]) \subseteq tables
    BY DEF ServesMigrated
  <2>1. pc[h] = "serve"
    BY DEF StartInv, Children
  <2> QED BY <2>1 DEF StartInv, Progress
<1> QED BY <1>1, StartInvariant, PTL

=============================================================================
