----------------------------- MODULE BundleProofs ----------------------------
(***************************************************************************)
(* Run bundles for any number of processes, destinations, commands and     *)
(* failures of the disk.  No command changes or removes a bundle, whatever *)
(* others do to it.  Here is also the invariant of the files, StoreInv,    *)
(* kept as long as nobody edits the files of a bundle (they may remove it, *)
(* and processes may die anywhere); BundleReports draws the conclusions.   *)
(*                                                                         *)
(* The invariant follows a bundle through its files: what is staged is the *)
(* beginning of the command's own bundle in the order of writing, and what *)
(* was read is the beginning of a bundle in the order of reading, each     *)
(* file from some bundle committed there; the manifest, read first, then   *)
(* binds the others to one run.                                            *)
(***************************************************************************)
EXTENDS BundleStore, FiniteSetTheorems, TLAPS

------------------------------------------------------------------------------
(* Files, one after the other *)

FileNames == {"scenario", "contract", "output", "telemetry", "summary", "metrics", "receipt", "manifest"}

\* The two orders name each of the eight files once; the manifest is written last and
\* read first.
LEMMA Orders ==
  ASSUME NEW order \in {Files, ReadOrder}
  PROVE  /\ \A i \in 1..8 : order[i] \in FileNames
         /\ \A f \in FileNames : \E i \in 1..8 : order[i] = f
         /\ \A i, j \in 1..8 : order[i] = order[j] => i = j
         /\ Len(order) = 8 /\ Range(order) = FileNames /\ Range(Files) = FileNames
         /\ Files[8] = "manifest" /\ ReadOrder[1] = "manifest"
<1>1. /\ Files[1] = "scenario" /\ Files[2] = "contract" /\ Files[3] = "output"
      /\ Files[4] = "telemetry" /\ Files[5] = "summary" /\ Files[6] = "metrics"
      /\ Files[7] = "receipt" /\ Files[8] = "manifest" /\ DOMAIN Files = 1..8 /\ Len(Files) = 8
  BY DEF Files, Artifacts, CanonicalFiles
<1>2. /\ ReadOrder[1] = "manifest" /\ ReadOrder[2] = "scenario" /\ ReadOrder[3] = "contract"
      /\ ReadOrder[4] = "output" /\ ReadOrder[5] = "telemetry" /\ ReadOrder[6] = "summary"
      /\ ReadOrder[7] = "metrics" /\ ReadOrder[8] = "receipt"
      /\ DOMAIN ReadOrder = 1..8 /\ Len(ReadOrder) = 8
  BY DEF ReadOrder, Artifacts, CanonicalFiles
<1>3. \A i \in 1..8 : i \in {1, 2, 3, 4, 5, 6, 7, 8}
  OBVIOUS
<1>4. CASE order = Files
  <2>1. \A i \in 1..8 : order[i] \in FileNames
    BY <1>1, <1>3, <1>4 DEF FileNames
  <2>2. \A f \in FileNames : \E i \in 1..8 : order[i] = f
    BY <1>1, <1>4 DEF FileNames
  <2>3. \A i, j \in 1..8 : order[i] = order[j] => i = j
    BY <1>1, <1>3, <1>4
  <2>4. Range(order) = FileNames
    BY <1>1, <1>4, <2>1, <2>2 DEF Range
  <2> QED BY <1>1, <1>2, <1>4, <2>1, <2>2, <2>3, <2>4
<1>5. CASE order = ReadOrder
  <2>1. \A i \in 1..8 : order[i] \in FileNames
    BY <1>2, <1>3, <1>5 DEF FileNames
  <2>2. \A f \in FileNames : \E i \in 1..8 : order[i] = f
    BY <1>2, <1>5 DEF FileNames
  <2>3. \A i, j \in 1..8 : order[i] = order[j] => i = j
    BY <1>2, <1>3, <1>5
  <2>4. Range(order) = FileNames
    BY <1>2, <1>5, <2>1, <2>2 DEF Range
  <2>5. \A i \in 1..8 : Files[i] \in FileNames
    BY <1>1, <1>3 DEF FileNames
  <2>6. \A f \in FileNames : \E i \in 1..8 : Files[i] = f
    BY <1>1 DEF FileNames
  <2>7. Range(Files) = FileNames
    BY <1>1, <2>5, <2>6 DEF Range
  <2> QED BY <1>1, <1>2, <1>5, <2>1, <2>2, <2>3, <2>4, <2>7
<1> QED BY <1>4, <1>5

\* The first k files in an order.
Prefix(files, order, k) ==
  /\ DOMAIN files = {order[i] : i \in 1..k}
  /\ IsFiniteSet(DOMAIN files) /\ Cardinality(DOMAIN files) = k
  /\ files = [f \in DOMAIN files |-> files[f]]

\* No file is the beginning of any order.
LEMMA PrefixEmpty == \A order : Prefix(<< >>, order, 0)
<1> SUFFICES ASSUME NEW order PROVE Prefix(<< >>, order, 0)
  OBVIOUS
<1>1. DOMAIN << >> = {} /\ {order[i] : i \in 1..0} = {}
  OBVIOUS
<1>2. << >> = [f \in DOMAIN << >> |-> << >>[f]]
  OBVIOUS
<1> QED BY <1>1, <1>2, FS_EmptySet DEF Prefix

\* File n is the one after the first k: it is new, and with it there are k + 1.
Grown(files, order, k, n, x) ==
  /\ n \in FileNames /\ n = order[k + 1] /\ n \notin DOMAIN files
  /\ Prefix(With(files, n, x), order, k + 1)
  /\ DOMAIN With(files, n, x) = DOMAIN files \cup {n}
  /\ With(files, n, x)[n] = x
  /\ \A f \in DOMAIN files : With(files, n, x)[f] = files[f]

\* The next file is found by counting.
LEMMA PrefixGrows ==
  ASSUME NEW order \in {Files, ReadOrder}, NEW k \in 0..7, NEW files, Prefix(files, order, k), NEW x,
         NEW n, n = order[Cardinality(DOMAIN files) + 1]
  PROVE  Grown(files, order, k, n, x)
<1> DEFINE more == With(files, n, x)
<1>1. /\ Cardinality(DOMAIN files) = k /\ k + 1 \in 1..8 /\ DOMAIN files = {order[i] : i \in 1..k}
      /\ n = order[k + 1]
  BY DEF Prefix
<1>2. n \in FileNames
  BY <1>1, Orders
<1>3. n \notin DOMAIN files
  <2>1. \A i \in 1..k : i \in 1..8 /\ i # k + 1
    OBVIOUS
  <2>2. \A i, j \in 1..8 : order[i] = order[j] => i = j
    BY Orders
  <2> QED BY <1>1, <2>1, <2>2
<1>4. /\ DOMAIN more = DOMAIN files \cup {n} /\ more[n] = x
      /\ \A f \in DOMAIN files : more[f] = files[f]
      /\ more = [f \in DOMAIN more |-> more[f]]
  BY <1>3 DEF With
<1>5. {order[i] : i \in 1..(k + 1)} = {order[i] : i \in 1..k} \cup {order[k + 1]}
  <2>1. 1..(k + 1) = (1..k) \cup {k + 1}
    OBVIOUS
  <2> QED BY <2>1, Zenon
<1>6. IsFiniteSet(DOMAIN files \cup {n}) /\ Cardinality(DOMAIN files \cup {n}) = k + 1
  BY <1>1, <1>3, FS_AddElement DEF Prefix
<1> HIDE DEF more
<1>7. Prefix(more, order, k + 1)
  BY <1>1, <1>4, <1>5, <1>6 DEF Prefix
<1> QED BY <1>1, <1>2, <1>3, <1>4, <1>7 DEF more, Grown

\* All files are there when there are eight, and only then.
LEMMA PrefixWhole ==
  ASSUME NEW order \in {Files, ReadOrder}, NEW k \in 0..8, NEW files, Prefix(files, order, k)
  PROVE  DOMAIN files \subseteq FileNames /\ (DOMAIN files = FileNames <=> k = 8)
<1>1. DOMAIN files = {order[i] : i \in 1..k}
  BY DEF Prefix
<1>2. /\ \A i \in 1..8 : order[i] \in FileNames
      /\ \A f \in FileNames : \E i \in 1..8 : order[i] = f
      /\ \A i, j \in 1..8 : order[i] = order[j] => i = j
  BY Orders
<1>3. DOMAIN files \subseteq FileNames
  BY <1>1, <1>2
<1>4. k = 8 => DOMAIN files = FileNames
  BY <1>1, <1>2, <1>3
<1>5. k # 8 => order[8] \notin DOMAIN files /\ order[8] \in FileNames
  <2>1. k # 8 => \A i \in 1..k : i \in 1..8 /\ i # 8
    OBVIOUS
  <2> QED BY <1>1, <1>2, <2>1
<1> QED BY <1>3, <1>4, <1>5

------------------------------------------------------------------------------
(* The invariant.  w is the world, done the commits so far, n the faults so far; c is a     *)
(* process's command and me where it stands.                                                *)

\* The run of command c was committed to d.
Committed(done, d, c) == <<d, RunId(RunOf(c).contract)>> \in done

\* Process q ran, and its bundle or an equal one went to d.
Source(w, done, d, q) ==
  /\ q \in Processes /\ Executes(w.commands[q]) /\ Committed(done, d, w.commands[q])
BundleBy(w, q) == BundleOf(w.commands[q], q)

Empty == {Absent, NotADirectory, EmptyDirectory}
HoldsBundle(w, done, d, at) == \E q \in Processes : Source(w, done, d, q) /\ at = Directory(BundleBy(w, q))

\* A destination holds a committed bundle or none; one that nobody touched holds what
\* it held in the beginning or a committed bundle.
DiskInv(w, disk, touch, done) ==
  /\ DOMAIN disk = Destinations
  /\ \A d \in Destinations :
       /\ disk[d] \in Empty \/ HoldsBundle(w, done, d, disk[d])
       /\ d \notin touch => disk[d] = w.directory[d] \/ HoldsBundle(w, done, d, disk[d])

StepNames == {"start", "look", "stage", "write", "check", "rename", "cleanup", "reuse", "replay",
              "result", "torn", "done"}

\* Where a command may stand, and that it reports its end only when it has ended.
StepInv(c, me) ==
  /\ me.step \in StepNames
  /\ me.step \notin {"start", "replay", "done"} => Executes(c)
  /\ me.step \in {"look", "stage", "write", "check", "rename", "cleanup", "reuse", "replay"}
       => c.destination \in Destinations
  /\ me.step = "replay" => c.kind # "run"
  /\ me.step \in {"result", "torn"} => c.kind = "run"
  /\ me.step # "done" => me.exit = None

\* What is staged: the beginning of the command's own bundle, or all of it.
StageInv(b, n, me) ==
  /\ me.step \in {"start", "look", "stage", "reuse", "replay", "result", "torn"} => me.staging = Absent
  /\ me.step = "write" =>
       /\ me.staging = Directory(me.staging.files)
       /\ \E k \in 0..7 : Prefix(me.staging.files, Files, k)
       /\ \A f \in DOMAIN me.staging.files : me.staging.files[f] = b[f]
  /\ me.step \in {"check", "rename"} => me.staging = Directory(b)
  /\ me.step = "done" /\ me.staging # Absent => n > 0

\* What was read: of the bundle staged, or of bundles committed to the destination; of
\* the bundle that is there if nothing went wrong so far.
ReadInv(w, disk, done, n, p, me) ==
  LET d == w.commands[p].destination IN
  /\ me.step \notin {"check", "reuse", "replay", "cleanup", "done"} => me.read = << >>
  /\ me.step \in {"check", "reuse", "replay"} => \E k \in 0..8 : Prefix(me.read, ReadOrder, k)
  /\ me.step = "check" => \A f \in DOMAIN me.read : me.read[f] = BundleBy(w, p)[f]
  /\ me.step \in {"reuse", "replay"} =>
       \A f \in DOMAIN me.read : \E q \in Processes : Source(w, done, d, q) /\ me.read[f] = BundleBy(w, q)[f]
  /\ me.step = "reuse" /\ n = 0 /\ DOMAIN me.read # {} =>
       \E q \in Processes :
         /\ Source(w, done, d, q) /\ disk[d] = Directory(BundleBy(w, q))
         /\ \A f \in DOMAIN me.read : me.read[f] = BundleBy(w, q)[f]

\* A result of a run with a bundle comes after the commit.
ResultInv(c, done, me) ==
  c.kind = "run" /\ c.destination # None /\ (me.step \in {"result", "torn"} \/ me.exit = 0)
    => Committed(done, c.destination, c)

ProcessInv(w, disk, done, n, p, me) ==
  /\ StepInv(w.commands[p], me)
  /\ StageInv(BundleBy(w, p), n, me)
  /\ ReadInv(w, disk, done, n, p, me)
  /\ ResultInv(w.commands[p], done, me)

Fields == {"step", "staging", "read", "disposition", "exit"}
Shape == DOMAIN process = Processes /\ \A p \in Processes : DOMAIN process[p] = Fields

StoreInv ==
  /\ world \in Worlds /\ world.edits = {} /\ faults \in Nat /\ Shape
  /\ DiskInv(world, directory, touched, committed)
  /\ \A p \in Processes : ProcessInv(world, directory, committed, faults, p, process[p])

------------------------------------------------------------------------------

\* A record after an update.
LEMMA UpdatedFields ==
  ASSUME NEW r, DOMAIN r = Fields, NEW c
  PROVE  /\ DOMAIN Updated(r, c) = Fields
         /\ \A f \in Fields : Updated(r, c)[f] = IF f \in DOMAIN c THEN c[f] ELSE r[f]
BY DEF Updated

\* A process moves and the others stay.
LEMMA Moved ==
  ASSUME Shape, NEW p \in Processes, NEW changes, Moves(p, changes)
  PROVE  /\ Shape'
         /\ process'[p] = Updated(process[p], changes)
         /\ \A q \in Processes \ {p} : process'[q] = process[q]
<1>1. /\ process'[p] = Updated(process[p], changes) /\ DOMAIN process' = Processes
      /\ \A q \in Processes \ {p} : process'[q] = process[q]
  BY DEF Moves, Shape
<1>2. DOMAIN Updated(process[p], changes) = Fields
  BY UpdatedFields DEF Shape
<1>3. \A q \in Processes : DOMAIN process'[q] = Fields
  <2> SUFFICES ASSUME NEW q \in Processes PROVE DOMAIN process'[q] = Fields
    OBVIOUS
  <2>1. CASE q = p
    BY <2>1, <1>1, <1>2
  <2>2. CASE q # p
    BY <2>2, <1>1 DEF Shape
  <2> QED BY <2>1, <2>2
<1> QED BY <1>1, <1>3 DEF Shape

\* A bundle is not an empty place.
LEMMA BundleIsNotEmpty ==
  ASSUME NEW w, NEW q
  PROVE  Directory(BundleBy(w, q)) \notin Empty /\ DOMAIN BundleBy(w, q) = FileNames
<1>1. DOMAIN BundleBy(w, q) = FileNames
  BY Orders DEF BundleBy, BundleOf
<1>2. "manifest" \in FileNames /\ DOMAIN << >> = {}
  BY DEF FileNames
<1>3. BundleBy(w, q) # << >>
  BY <1>1, <1>2
<1> HIDE DEF BundleBy
<1>4. /\ Directory(BundleBy(w, q)).kind = "directory" /\ Directory(BundleBy(w, q)).files = BundleBy(w, q)
      /\ EmptyDirectory.files = << >> /\ Absent.kind = "absent" /\ NotADirectory.kind = "file"
  BY DEF Directory, EmptyDirectory, Absent, NotADirectory
<1>5. Directory(BundleBy(w, q)) # EmptyDirectory
  BY <1>3, <1>4
<1>6. Directory(BundleBy(w, q)) # Absent /\ Directory(BundleBy(w, q)) # NotADirectory
  BY <1>4
<1> QED BY <1>1, <1>5, <1>6 DEF Empty

\* What another process or somebody else does: more may be committed and go wrong, and
\* without faults no bundle is replaced.
LEMMA OthersKeep ==
  ASSUME NEW w, NEW disk, NEW disk2, NEW done, NEW done2, NEW n \in Nat, NEW n2 \in Nat,
         NEW p \in Processes, NEW me, ProcessInv(w, disk, done, n, p, me),
         done \subseteq done2, n <= n2,
         n2 = 0 => \A d \in Destinations : disk2[d] = disk[d] \/ disk[d] \in Empty
  PROVE  ProcessInv(w, disk2, done2, n2, p, me)
<1> DEFINE d == w.commands[p].destination
<1>1. \A q : Source(w, done, d, q) => Source(w, done2, d, q)
  BY DEF Source, Committed
<1>2. StepInv(w.commands[p], me) /\ ResultInv(w.commands[p], done2, me)
  BY DEF ProcessInv, ResultInv, Committed
<1>3. StageInv(BundleBy(w, p), n2, me)
  <2>1. n > 0 => n2 > 0
    OBVIOUS
  <2> QED BY <2>1, Zenon DEF ProcessInv, StageInv
<1>4. ReadInv(w, disk2, done2, n2, p, me)
  <2>1. ReadInv(w, disk, done, n, p, me)
    BY DEF ProcessInv
  <2>2. ASSUME me.step = "reuse", n2 = 0, DOMAIN me.read # {}
        PROVE  \E q \in Processes :
                 /\ Source(w, done2, d, q) /\ disk2[d] = Directory(BundleBy(w, q))
                 /\ \A f \in DOMAIN me.read : me.read[f] = BundleBy(w, q)[f]
    <3>1. n = 0 /\ d \in Destinations
      BY <1>2, <2>2 DEF StepInv
    <3>2. PICK q \in Processes :
            /\ Source(w, done, d, q) /\ disk[d] = Directory(BundleBy(w, q))
            /\ \A f \in DOMAIN me.read : me.read[f] = BundleBy(w, q)[f]
      BY <2>1, <2>2, <3>1 DEF ReadInv
    <3>3. disk2[d] = disk[d]
      BY <2>2, <3>1, <3>2, BundleIsNotEmpty
    <3> QED BY <1>1, <3>2, <3>3
  <2>3. ASSUME me.step \in {"reuse", "replay"}, NEW f \in DOMAIN me.read
        PROVE  \E q \in Processes : Source(w, done2, d, q) /\ me.read[f] = BundleBy(w, q)[f]
    <3>1. PICK q \in Processes : Source(w, done, d, q) /\ me.read[f] = BundleBy(w, q)[f]
      BY <2>1, <2>3 DEF ReadInv
    <3> QED BY <1>1, <3>1
  <2> QED BY <2>1, <2>2, <2>3, Zenon DEF ReadInv
<1> QED BY <1>2, <1>3, <1>4 DEF ProcessInv

\* A step that only moves one process keeps the invariant if that process stays in it.
LEMMA OwnStep ==
  ASSUME StoreInv, NEW p \in Processes, NEW changes, Moves(p, changes),
         UNCHANGED <<world, directory, touched, committed>>, faults' \in {faults, faults + 1},
         ProcessInv(world, directory, committed, faults', p, Updated(process[p], changes))
  PROVE  StoreInv'
<1>0. faults \in Nat /\ faults' \in Nat /\ faults <= faults'
  <2>1. faults \in Nat
    BY DEF StoreInv
  <2> QED BY <2>1
<1>1. /\ Shape' /\ process'[p] = Updated(process[p], changes)
      /\ \A q \in Processes \ {p} : process'[q] = process[q]
  BY Moved DEF StoreInv
<1>2. ASSUME NEW q \in Processes
      PROVE  ProcessInv(world, directory, committed, faults', q, process'[q])
  <2>1. CASE q = p
    BY <1>1, <2>1
  <2>2. CASE q # p
    <3>1. ProcessInv(world, directory, committed, faults, q, process[q])
      BY DEF StoreInv
    <3>2. ProcessInv(world, directory, committed, faults', q, process[q])
      BY ONLY <1>0, <3>1, q \in Processes, OthersKeep
    <3> QED BY <1>1, <2>2, <3>2
  <2> QED BY <2>1, <2>2
<1> QED BY <1>0, <1>1, <1>2 DEF StoreInv

\* A directory holds its files.
LEMMA DirectoryFiles == \A files : Directory(files).files = files /\ Directory(files).kind = "directory"
BY DEF Directory

\* A process that has ended.
LEMMA Ended ==
  ASSUME NEW w, NEW disk, NEW done, NEW n, NEW p, NEW you, you.step = "done",
         you.staging # Absent => n > 0,
         you.exit = 0 => ResultInv(w.commands[p], done, you)
  PROVE  ProcessInv(w, disk, done, n, p, you)
<1>1. StepInv(w.commands[p], you)
  BY DEF StepInv, StepNames
<1>2. StageInv(BundleBy(w, p), n, you)
  BY DEF StageInv
<1>3. ReadInv(w, disk, done, n, p, you)
  BY DEF ReadInv
<1>4. ResultInv(w.commands[p], done, you)
  BY DEF ResultInv
<1> QED BY <1>1, <1>2, <1>3, <1>4 DEF ProcessInv

\* A process between its files: nothing staged, nothing read.
Idle(you) ==
  /\ you.step \in {"look", "stage", "reuse", "replay", "result", "torn"}
  /\ you.staging = Absent /\ you.read = << >>

\* Such a process only has to be at the right place.
LEMMA Between ==
  \A w, disk, done, n, p, you :
    Idle(you) /\ StepInv(w.commands[p], you) /\ ResultInv(w.commands[p], done, you)
      => ProcessInv(w, disk, done, n, p, you)
<1> SUFFICES ASSUME NEW w, NEW disk, NEW done, NEW n, NEW p, NEW you, Idle(you),
                    StepInv(w.commands[p], you), ResultInv(w.commands[p], done, you)
             PROVE  ProcessInv(w, disk, done, n, p, you)
  OBVIOUS
<1>1. StageInv(BundleBy(w, p), n, you)
  BY DEF StageInv, Idle
<1>2. Prefix(you.read, ReadOrder, 0) /\ DOMAIN you.read = {}
  BY PrefixEmpty DEF Idle
<1>3. ReadInv(w, disk, done, n, p, you)
  BY <1>2 DEF ReadInv, Idle
<1> QED BY <1>1, <1>3 DEF ProcessInv

------------------------------------------------------------------------------
(* The steps of a command *)

\* The command is looked at, and what is at the destination.
LEMMA StartKeeps ==
  ASSUME StoreInv, NEW p \in Processes, Start(p) \/ Look(p)
  PROVE  StoreInv'
<1> DEFINE me == process[p]
           c == world.commands[p]
<1>1. /\ StepInv(c, me) /\ StageInv(BundleBy(world, p), faults, me) /\ Shape /\ faults \in Nat
      /\ ReadInv(world, directory, committed, faults, p, me) /\ me.step \in {"start", "look"}
  BY DEF StoreInv, ProcessInv, Start, Look, AtStep
<1>2. me.staging = Absent /\ me.read = << >> /\ me.exit = None
  BY <1>1 DEF StepInv, StageInv, ReadInv
<1>3. /\ UNCHANGED <<world, directory, touched, committed>> /\ faults' = faults
  BY <1>1 DEF Start, Look, OnlyProcess
<1>4. /\ c.kind \in {"demo", "run", "replay"} /\ c.destination \in Destinations \cup {None}
      /\ (c.kind # "run" => c.destination # None) /\ None \notin Destinations
  BY WorldsAssumption DEF StoreInv
<1>5. ASSUME NEW x \in {10, 20, 30}, Exits(p, x) PROVE StoreInv'
  <2>1. LET you == Updated(me, [step |-> "done", exit |-> x])
        IN  ProcessInv(world, directory, committed, faults, p, you)
    <3> DEFINE you == Updated(me, [step |-> "done", exit |-> x])
    <3>1. you.step = "done" /\ you.staging = Absent /\ you.exit = x /\ x # 0
      BY <1>1, <1>2 DEF Shape, Updated, Fields
    <3> HIDE DEF you
    <3>2. ProcessInv(world, directory, committed, faults, p, you)
      BY <3>1, Ended
    <3> QED BY <3>2 DEF you
  <2> QED BY <1>1, <1>3, <1>5, <2>1, OwnStep DEF Exits
<1>6. ASSUME NEW s \in {"look", "stage", "reuse", "replay", "result"}, Moves(p, [step |-> s]),
             s # "replay" => Executes(c), s # "result" => c.destination \in Destinations,
             s = "replay" => c.kind # "run",
             s = "result" => c.kind = "run" /\ c.destination = None
      PROVE  StoreInv'
  <2> DEFINE you == Updated(me, [step |-> s])
  <2>1. you.step = s /\ you.staging = Absent /\ you.read = << >> /\ you.exit = None
    BY <1>1, <1>2 DEF Shape, Updated, Fields
  <2> HIDE DEF you
  <2>2. StepInv(c, you)
    BY <1>6, <2>1 DEF StepInv, StepNames
  <2>3. ResultInv(c, committed, you)
    BY <1>6, <2>1, WorldsAssumption DEF ResultInv
  <2>4. ProcessInv(world, directory, committed, faults, p, you)
    <3>1. Idle(you)
      BY <1>6, <2>1 DEF Idle
    <3> QED BY ONLY <2>2, <2>3, <3>1, Between, Zenon
  <2> QED BY <1>1, <1>3, <1>6, <2>4, OwnStep DEF you
<1>7. CASE Start(p)
  <2>1. \/ c.kind = "replay" /\ Moves(p, [step |-> "replay"])
        \/ Exits(p, 10) \/ Exits(p, 20)
        \/ Executes(c) /\ c.destination = None /\ Moves(p, [step |-> "result"])
        \/ Executes(c) /\ c.destination # None /\ Moves(p, [step |-> "look"])
    BY <1>7 DEF Start, Executes, Command, Destination
  <2>2. CASE c.kind = "replay" /\ Moves(p, [step |-> "replay"])
    BY <1>4, <1>6, <2>2
  <2>3. CASE Executes(c) /\ c.destination = None /\ Moves(p, [step |-> "result"])
    BY <1>4, <1>6, <2>3
  <2>4. CASE Executes(c) /\ c.destination # None /\ Moves(p, [step |-> "look"])
    BY <1>4, <1>6, <2>4
  <2> QED BY <1>5, <2>1, <2>2, <2>3, <2>4
<1>8. CASE Look(p)
  <2>1. Executes(c) /\ c.destination \in Destinations
    BY <1>1, <1>8 DEF Look, AtStep, StepInv
  <2>2. Moves(p, [step |-> "stage"]) \/ Moves(p, [step |-> "reuse"]) \/ Exits(p, 30)
    BY <1>8, Zenon DEF Look
  <2> QED BY <1>5, <1>6, <2>1, <2>2
<1> QED BY <1>7, <1>8

\* The staging directory is made, and one file after the other is written to it.
LEMMA WriteKeeps ==
  ASSUME StoreInv, NEW p \in Processes, CreateStaging(p) \/ WriteFile(p)
  PROVE  StoreInv'
<1> DEFINE me == process[p]
           c == world.commands[p]
           b == BundleBy(world, p)
<1>1. /\ StepInv(c, me) /\ StageInv(b, faults, me) /\ Shape /\ faults \in Nat
      /\ ReadInv(world, directory, committed, faults, p, me) /\ me.step \in {"stage", "write"}
      /\ ResultInv(c, committed, me)
  BY DEF StoreInv, ProcessInv, CreateStaging, WriteFile, AtStep
<1>2. /\ me.read = << >> /\ me.exit = None /\ Executes(c) /\ c.destination \in Destinations
  BY <1>1 DEF StepInv, ReadInv
<1>3. /\ UNCHANGED <<world, directory, touched, committed>> /\ faults' = faults
  BY <1>1 DEF CreateStaging, WriteFile, OnlyProcess
<1>4. ASSUME NEW s \in {"write", "check"}, NEW at, Moves(p, [step |-> s, staging |-> at]),
             at = Directory(at.files), \A f \in DOMAIN at.files : at.files[f] = b[f],
             s = "write" => \E k \in 0..7 : Prefix(at.files, Files, k),
             s = "check" => at = Directory(b)
      PROVE  StoreInv'
  <2> DEFINE you == Updated(me, [step |-> s, staging |-> at])
  <2>1. you.step = s /\ you.staging = at /\ you.read = << >> /\ you.exit = None
    BY <1>1, <1>2 DEF Shape, Updated, Fields
  <2> HIDE DEF you
  <2>2. StepInv(c, you)
    BY <1>2, <1>4, <2>1 DEF StepInv, StepNames
  <2>3. ResultInv(c, committed, you)
    BY <1>4, <2>1, WorldsAssumption DEF ResultInv
  <2> HIDE DEF b
  <2>4. StageInv(b, faults, you)
    BY <1>4, <2>1 DEF StageInv
  <2>5. ReadInv(world, directory, committed, faults, p, you)
    <3>1. Prefix(you.read, ReadOrder, 0) /\ DOMAIN you.read = {}
      BY <2>1, PrefixEmpty
    <3>2. you.step \notin {"reuse", "replay"}
      BY <1>4, <2>1
    <3>3. \E k \in 0..8 : Prefix(you.read, ReadOrder, k)
      BY <3>1
    <3> QED BY <2>1, <3>1, <3>2, <3>3, Zenon DEF ReadInv
  <2>6. ProcessInv(world, directory, committed, faults, p, you)
    BY <2>2, <2>3, <2>4, <2>5 DEF ProcessInv, b
  <2> QED BY <1>1, <1>3, <1>4, <2>6, OwnStep DEF you
<1>5. CASE CreateStaging(p)
  <2>1. Moves(p, [step |-> "write", staging |-> EmptyDirectory])
    BY <1>5 DEF CreateStaging
  <2>2. EmptyDirectory.files = << >> /\ EmptyDirectory = Directory(EmptyDirectory.files)
    BY DEF EmptyDirectory, Directory
  <2>3. Prefix(EmptyDirectory.files, Files, 0) /\ DOMAIN EmptyDirectory.files = {}
    BY <2>2, PrefixEmpty
  <2>4. /\ \A f \in DOMAIN EmptyDirectory.files : EmptyDirectory.files[f] = b[f]
        /\ \E k \in 0..7 : Prefix(EmptyDirectory.files, Files, k)
    BY ONLY <2>3
  <2> HIDE DEF b
  <2> QED BY ONLY <1>4, <2>1, <2>2, <2>4, "write" # "check"
<1>6. CASE WriteFile(p)
  <2> DEFINE files == me.staging.files
             n == Files[Cardinality(DOMAIN files) + 1]
             more == With(files, n, b[n])
             at == Directory(more)
             s == IF n = "manifest" THEN "check" ELSE "write"
  <2>1. PICK k \in 0..7 : Prefix(files, Files, k)
    BY <1>1, <1>6 DEF WriteFile, AtStep, StageInv
  <2>2. \A f \in DOMAIN files : files[f] = b[f]
    BY <1>1, <1>6 DEF WriteFile, AtStep, StageInv
  <2>3. /\ n \in FileNames /\ n = Files[k + 1] /\ Prefix(more, Files, k + 1)
        /\ DOMAIN more = DOMAIN files \cup {n} /\ more[n] = b[n]
        /\ \A f \in DOMAIN files : more[f] = files[f]
    <3> HIDE DEF files, b
    <3>1. Files \in {Files, ReadOrder} /\ n = Files[Cardinality(DOMAIN files) + 1]
      OBVIOUS
    <3> DEFINE x == b[n]
    <3> HIDE DEF n, x
    <3>2. Grown(files, Files, k, n, x)
      BY ONLY k \in 0..7, <2>1, <3>1, PrefixGrows
    <3> QED BY ONLY <3>2 DEF more, x, Grown
  <2>4. Moves(p, [step |-> s, staging |-> at])
    <3>1. n = NextFile(p) /\ b = Contents(p) /\ files = Staged(p)
      BY DEF NextFile, Contents, BundleBy, Command, Staged
    <3>2. [staging |-> at, step |-> s] = [step |-> s, staging |-> at]
      OBVIOUS
    <3> QED BY <1>6, <3>1, <3>2 DEF WriteFile
  <2>5. \A f \in DOMAIN more : more[f] = b[f]
    BY <2>2, <2>3
  <2> HIDE DEF n, more, b, files
  <2>6. at.files = more /\ at = Directory(at.files)
    BY DEF Directory
  <2>7. n = "manifest" <=> k + 1 = 8
    <3>1. Files[8] = "manifest" /\ \A i, j \in 1..8 : Files[i] = Files[j] => i = j
      BY Orders
    <3>2. k + 1 \in 1..8
      OBVIOUS
    <3> QED BY <2>3, <3>1, <3>2
  <2>8. CASE k + 1 = 8
    <3>1. DOMAIN more = FileNames /\ more = [f \in DOMAIN more |-> more[f]]
      <4>1. k + 1 \in 0..8
        OBVIOUS
      <4> QED BY <2>3, <2>8, <4>1, PrefixWhole DEF Prefix
    <3>2. DOMAIN b = FileNames /\ b = [f \in DOMAIN b |-> b[f]]
      BY BundleIsNotEmpty DEF b, BundleBy, BundleOf
    <3>3. more = b
      BY ONLY <2>5, <3>1, <3>2
    <3>4. s = "check" /\ at = Directory(b)
      BY <2>7, <2>8, <3>3
    <3> HIDE DEF at, s
    <3> QED BY <1>4, <2>4, <2>5, <2>6, <3>4
  <2>9. CASE k + 1 # 8
    <3>1. k + 1 \in 0..7 /\ s = "write"
      BY <2>7, <2>9
    <3> HIDE DEF at, s
    <3> QED BY <1>4, <2>3, <2>4, <2>5, <2>6, <3>1
  <2> QED BY <2>8, <2>9
<1> QED BY <1>5, <1>6

\* What goes wrong: the disk, the process, the removal of what was staged.
LEMMA FaultKeeps ==
  ASSUME StoreInv, NEW p \in Processes, DiskFails(p) \/ Crash(p) \/ Cleanup(p)
  PROVE  StoreInv'
<1> DEFINE me == process[p]
           c == world.commands[p]
<1>1. /\ StepInv(c, me) /\ StageInv(BundleBy(world, p), faults, me) /\ Shape /\ faults \in Nat
      /\ me.step # "done"
  BY DEF StoreInv, ProcessInv, DiskFails, Crash, Cleanup, AtStep
<1>2. /\ UNCHANGED <<world, directory, touched, committed>>
      /\ faults' = faults + 1 \/ faults' = faults
  BY DEF DiskFails, Crash, Cleanup, OnlyProcess
<1>3. faults' \in Nat /\ faults <= faults' /\ (faults' = faults + 1 => faults' > 0)
  BY <1>1, <1>2
<1>4. ASSUME NEW x \in {30, Killed}, Moves(p, [step |-> "done", exit |-> x]), faults' = faults + 1
      PROVE  StoreInv'
  <2> DEFINE you == Updated(me, [step |-> "done", exit |-> x])
  <2>0. you.step = "done" /\ you.exit = x
    BY <1>1 DEF Shape, Updated, Fields
  <2> HIDE DEF you
  <2>1. you.step = "done" /\ you.exit # 0
    BY <2>0 DEF Killed
  <2>2. ProcessInv(world, directory, committed, faults', p, you)
    BY <1>3, <1>4, <2>1, Ended
  <2> QED BY <1>1, <1>2, <1>3, <1>4, <2>2, OwnStep DEF you
<1>5. ASSUME Moves(p, [step |-> "done", exit |-> 30, staging |-> Absent]) PROVE StoreInv'
  <2> DEFINE you == Updated(me, [step |-> "done", exit |-> 30, staging |-> Absent])
  <2>1. you.step = "done" /\ you.exit = 30 /\ you.staging = Absent
    BY <1>1 DEF Shape, Updated, Fields
  <2> HIDE DEF you
  <2>2. ProcessInv(world, directory, committed, faults', p, you)
    BY <2>1, Ended
  <2> QED BY <1>1, <1>2, <1>3, <1>5, <2>2, OwnStep DEF you
<1>6. ASSUME NEW at, Moves(p, [step |-> "cleanup", staging |-> at]), me.step = "write" PROVE StoreInv'
  <2> DEFINE you == Updated(me, [step |-> "cleanup", staging |-> at])
  <2>0. me.exit = None
    BY <1>1, <1>6 DEF StepInv
  <2>1. you.step = "cleanup" /\ you.exit = None
    BY <1>1, <2>0 DEF Shape, Updated, Fields
  <2> HIDE DEF you
  <2>2. Executes(c) /\ c.destination \in Destinations
    BY <1>1, <1>6 DEF StepInv
  <2>3. StepInv(c, you) /\ StageInv(BundleBy(world, p), faults', you)
    BY <2>1, <2>2 DEF StepInv, StepNames, StageInv
  <2>4. ReadInv(world, directory, committed, faults', p, you) /\ ResultInv(c, committed, you)
    BY <2>1, WorldsAssumption DEF ReadInv, ResultInv
  <2>5. ProcessInv(world, directory, committed, faults', p, you)
    BY <2>3, <2>4 DEF ProcessInv
  <2> QED BY <1>1, <1>2, <1>3, <1>6, <2>5, OwnStep DEF you
<1>7. CASE DiskFails(p)
  <2>1. faults' = faults + 1
    BY <1>7 DEF DiskFails
  <2>2. CASE me.step = "write"
    <3>1. \E at : Moves(p, [step |-> "cleanup", staging |-> at])
      BY <1>7, <2>2 DEF DiskFails, AtStep
    <3> QED BY <1>6, <2>2, <3>1
  <2>3. CASE me.step # "write"
    BY <1>4, <1>7, <2>1, <2>3 DEF DiskFails, AtStep, Exits
  <2> QED BY <2>2, <2>3
<1>8. CASE Crash(p)
  BY <1>4, <1>8 DEF Crash
<1>9. CASE Cleanup(p)
  BY <1>4, <1>5, <1>9 DEF Cleanup, Exits
<1> QED BY <1>7, <1>8, <1>9

\* A reader gives up: what was staged is removed, and nothing else was.
LEMMA RefuseKeeps ==
  ASSUME StoreInv, NEW p \in Processes, process[p].step \in {"check", "reuse", "replay"},
         NEW x, x # 0, Refuses(p, x), OnlyProcess, UNCHANGED faults
  PROVE  StoreInv'
<1> DEFINE me == process[p]
           c == world.commands[p]
<1>1. /\ StepInv(c, me) /\ StageInv(BundleBy(world, p), faults, me) /\ Shape /\ faults \in Nat
  BY DEF StoreInv, ProcessInv
<1>2. /\ UNCHANGED <<world, directory, touched, committed>> /\ faults' = faults
  BY <1>1 DEF OnlyProcess
<1>3. CASE me.step = "check"
  <2> DEFINE you == Updated(me, [step |-> "cleanup"])
  <2>1. Moves(p, [step |-> "cleanup"])
    BY <1>3 DEF Refuses, AtStep
  <2>0. me.exit = None
    BY <1>1, <1>3 DEF StepInv
  <2>2. you.step = "cleanup" /\ you.exit = None
    BY <1>1, <2>0 DEF Shape, Updated, Fields
  <2> HIDE DEF you
  <2>3. Executes(c) /\ c.destination \in Destinations
    BY <1>1, <1>3 DEF StepInv
  <2>4. StepInv(c, you) /\ StageInv(BundleBy(world, p), faults, you)
    BY <2>2, <2>3 DEF StepInv, StepNames, StageInv
  <2>5. ReadInv(world, directory, committed, faults, p, you) /\ ResultInv(c, committed, you)
    BY <2>2, WorldsAssumption DEF ReadInv, ResultInv
  <2>6. ProcessInv(world, directory, committed, faults, p, you)
    BY <2>4, <2>5 DEF ProcessInv
  <2> QED BY <1>1, <1>2, <2>1, <2>6, OwnStep DEF you
<1>4. CASE me.step # "check"
  <2>1. \E y \in {x, 30} : Moves(p, [step |-> "done", exit |-> y])
    BY <1>4, Zenon DEF Refuses, AtStep, Exits
  <2>2. PICK y \in {x, 30} : Moves(p, [step |-> "done", exit |-> y])
    BY <2>1
  <2> DEFINE you == Updated(me, [step |-> "done", exit |-> y])
  <2>0. me.staging = Absent
    BY <1>1, <1>4 DEF StageInv
  <2>a. you.step = "done" /\ you.exit = y /\ you.staging = Absent
    BY <1>1, <2>0 DEF Shape, Updated, Fields
  <2> HIDE DEF you
  <2>b. y # 0
    <3>1. 30 # 0
      BY ONLY TRUE
    <3>2. y = x \/ y = 30
      BY ONLY y \in {x, 30}, Zenon
    <3> QED BY ONLY <3>1, <3>2, x # 0, Zenon
  <2>3. you.step = "done" /\ you.exit # 0 /\ you.staging = Absent
    BY ONLY <2>a, <2>b, Zenon
  <2>4. ProcessInv(world, directory, committed, faults, p, you)
    BY <2>3, Ended
  <2> QED BY <1>1, <1>2, <2>2, <2>4, OwnStep DEF you
<1> QED BY <1>3, <1>4

\* A directory in which a file is found is a bundle.
LEMMA FoundInBundle ==
  ASSUME StoreInv, NEW d \in Destinations, IsDirectory(directory[d]),
         NEW file, file \in DOMAIN directory[d].files
  PROVE  HoldsBundle(world, committed, d, directory[d])
<1>1. directory[d] \in Empty \/ HoldsBundle(world, committed, d, directory[d])
  BY DEF StoreInv, DiskInv
<1>2. directory[d] # Absent /\ directory[d] # NotADirectory
  BY DEF IsDirectory, Absent, NotADirectory
<1>3. EmptyDirectory.files = << >> /\ DOMAIN << >> = {}
  BY DEF EmptyDirectory, Directory
<1>4. directory[d] # EmptyDirectory
  BY <1>3
<1> QED BY <1>1, <1>2, <1>4 DEF Empty

\* The next file of the bundle is read.
LEMMA ReadKeeps ==
  ASSUME StoreInv, NEW p \in Processes, ReadFile(p)
  PROVE  StoreInv'
<1> DEFINE me == process[p]
           c == world.commands[p]
           d == c.destination
           file == ReadOrder[Cardinality(DOMAIN me.read) + 1]
           root == ReadRoot(p)
           x == root.files[file]
           more == With(me.read, file, x)
<1>1. /\ StepInv(c, me) /\ StageInv(BundleBy(world, p), faults, me) /\ Shape /\ faults \in Nat
      /\ ReadInv(world, directory, committed, faults, p, me) /\ ResultInv(c, committed, me)
      /\ me.step \in {"check", "reuse", "replay"} /\ OnlyProcess /\ UNCHANGED faults
  BY DEF StoreInv, ProcessInv, ReadFile
<1>2. /\ UNCHANGED <<world, directory, touched, committed>> /\ faults' = faults
  BY <1>1 DEF OnlyProcess
<1>3. \/ (~IsDirectory(root) \/ file \notin DOMAIN root.files) /\ Refuses(p, 40)
      \/ IsDirectory(root) /\ file \in DOMAIN root.files /\ Moves(p, [read |-> more])
  BY DEF ReadFile
<1>4. CASE Refuses(p, 40)
  <2>1. 40 # 0
    OBVIOUS
  <2> QED BY <1>1, <1>4, <2>1, RefuseKeeps
<1>5. CASE IsDirectory(root) /\ file \in DOMAIN root.files /\ Moves(p, [read |-> more])
  <2>1. \E k \in 0..8 : Prefix(me.read, ReadOrder, k)
    BY <1>1 DEF ReadInv
  <2>2. DOMAIN me.read # FileNames
    <3>1. ReadOrder \in {Files, ReadOrder}
      OBVIOUS
    <3>2. Range(ReadOrder) = FileNames
      BY ONLY <3>1, Orders
    <3> QED BY <3>2 DEF ReadFile, AllRead
  <2>3. PICK k \in 0..7 : Prefix(me.read, ReadOrder, k)
    <3>1. PICK k \in 0..8 : Prefix(me.read, ReadOrder, k)
      BY <2>1
    <3>2. k # 8
      BY <2>2, <3>1, PrefixWhole
    <3>3. k \in 0..7
      BY <3>2
    <3> QED BY <3>1, <3>3
  <2>4. Grown(me.read, ReadOrder, k, file, x)
    <3>1. ReadOrder \in {Files, ReadOrder} /\ file = ReadOrder[Cardinality(DOMAIN me.read) + 1]
      OBVIOUS
    <3> HIDE DEF file, x, me
    <3> QED BY ONLY k \in 0..7, <2>3, <3>1, PrefixGrows
  <2> DEFINE you == Updated(me, [read |-> more])
  <2>5. you.step = me.step /\ you.staging = me.staging /\ you.read = more /\ you.exit = me.exit
    BY <1>1 DEF Shape, Updated, Fields
  <2>6. /\ DOMAIN more = DOMAIN me.read \cup {file} /\ more[file] = x
        /\ \A f \in DOMAIN me.read : more[f] = me.read[f]
        /\ k + 1 \in 0..8 /\ Prefix(more, ReadOrder, k + 1) /\ file \in FileNames
    <3> HIDE DEF x, file, me
    <3>1. k + 1 \in 0..8
      OBVIOUS
    <3> QED BY ONLY <2>4, <3>1 DEF Grown, more
  <2> HIDE DEF you, more, x, file
  <2>7. StepInv(c, you) /\ StageInv(BundleBy(world, p), faults, you) /\ ResultInv(c, committed, you)
    BY <1>1, <2>5, Zenon DEF StepInv, StageInv, ResultInv
  <2>8. me.step = "check" => x = BundleBy(world, p)[file]
    <3>1. me.step = "check" => root = me.staging /\ me.staging = Directory(BundleBy(world, p))
      BY <1>1, Zenon DEF StageInv, ReadRoot, AtStep
    <3> QED BY <3>1, DirectoryFiles DEF x
  <2>9. ASSUME me.step \in {"reuse", "replay"}
        PROVE  /\ d \in Destinations /\ root = directory[d] /\ HoldsBundle(world, committed, d, directory[d])
               /\ x = directory[d].files[file]
    <3>1. d \in Destinations
      BY <1>1, <2>9 DEF StepInv
    <3>2. root = directory[d]
      BY <2>9 DEF ReadRoot, AtStep, Destination, Command
    <3> QED BY <1>5, <3>1, <3>2, FoundInBundle DEF x
  <2>10. ASSUME me.step \in {"reuse", "replay"}, NEW f \in DOMAIN more
         PROVE  \E q \in Processes : Source(world, committed, d, q) /\ more[f] = BundleBy(world, q)[f]
    <3>1. CASE f \in DOMAIN me.read
      BY <1>1, <2>6, <2>10, <3>1 DEF ReadInv
    <3>2. CASE f = file
      <4>1. PICK q \in Processes : Source(world, committed, d, q) /\ directory[d] = Directory(BundleBy(world, q))
        BY <2>9, <2>10 DEF HoldsBundle
      <4>2. more[f] = BundleBy(world, q)[f]
        <5>1. directory[d].files = BundleBy(world, q)
          BY ONLY <4>1, DirectoryFiles
        <5> QED BY <2>6, <2>9, <2>10, <3>2, <5>1
      <4> QED BY <4>1, <4>2
    <3> QED BY <2>6, <3>1, <3>2
  <2>11. ASSUME me.step = "reuse", faults = 0
         PROVE  \E q \in Processes :
                  /\ Source(world, committed, d, q) /\ directory[d] = Directory(BundleBy(world, q))
                  /\ \A f \in DOMAIN more : more[f] = BundleBy(world, q)[f]
    <3>1. \E q \in Processes :
            /\ Source(world, committed, d, q) /\ directory[d] = Directory(BundleBy(world, q))
            /\ \A f \in DOMAIN me.read : me.read[f] = BundleBy(world, q)[f]
      <4>1. CASE DOMAIN me.read # {}
        BY <1>1, <2>11, <4>1 DEF ReadInv
      <4>2. CASE DOMAIN me.read = {}
        BY <2>9, <2>11, <4>2 DEF HoldsBundle
      <4> QED BY <4>1, <4>2
    <3>2. PICK q \in Processes :
            /\ Source(world, committed, d, q) /\ directory[d] = Directory(BundleBy(world, q))
            /\ \A f \in DOMAIN me.read : me.read[f] = BundleBy(world, q)[f]
      BY <3>1
    <3>3. x = BundleBy(world, q)[file]
      <4>1. directory[d].files = BundleBy(world, q)
        BY ONLY <3>2, DirectoryFiles
      <4> QED BY <2>9, <2>11, <4>1
    <3>4. \A f \in DOMAIN more : more[f] = BundleBy(world, q)[f]
      BY <2>6, <3>2, <3>3
    <3> QED BY <3>2, <3>4
  <2>12. ReadInv(world, directory, committed, faults, p, you)
    <3>1. me.step = "check" => \A f \in DOMAIN more : more[f] = BundleBy(world, p)[f]
      <4>1. me.step = "check" => \A f \in DOMAIN me.read : me.read[f] = BundleBy(world, p)[f]
        BY <1>1 DEF ReadInv
      <4> QED BY <2>6, <2>8, <4>1
    <3>2. \E m \in 0..8 : Prefix(more, ReadOrder, m)
      BY <2>6
    <3>3. you.step \in {"check", "reuse", "replay"}
      BY <1>1, <2>5
    <3> QED BY <2>5, <2>10, <2>11, <3>1, <3>2, <3>3, Zenon DEF ReadInv
  <2>13. ProcessInv(world, directory, committed, faults, p, you)
    BY <2>7, <2>12 DEF ProcessInv
  <2> QED BY <1>1, <1>2, <1>5, <2>13, OwnStep DEF you
<1> QED BY <1>3, <1>4, <1>5

\* What the manifest of a bundle says.
LEMMA BundleManifest ==
  \A w, q : /\ BundleBy(w, q)["manifest"].run = RunId(RunOf(w.commands[q]).contract)
            /\ BundleBy(w, q)["manifest"].references = References(RunOf(w.commands[q]))
<1> SUFFICES ASSUME NEW w, NEW q
             PROVE  /\ BundleBy(w, q)["manifest"].run = RunId(RunOf(w.commands[q]).contract)
                    /\ BundleBy(w, q)["manifest"].references = References(RunOf(w.commands[q]))
  OBVIOUS
<1> DEFINE r == RunOf(w.commands[q])
<1>1. "manifest" \in Range(Files)
  BY Orders DEF FileNames
<1>2. BundleBy(w, q)["manifest"] = Manifest(r, Receipt(r, q))
  BY <1>1 DEF BundleBy, BundleOf
<1> HIDE DEF r
<1>3. Manifest(r, Receipt(r, q)).run = RunId(r.contract) /\ Manifest(r, Receipt(r, q)).references = References(r)
  BY DEF Manifest
<1> QED BY <1>2, <1>3 DEF r

\* What the other files of a bundle are.
LEMMA BundleFiles ==
  ASSUME NEW w, NEW q
  PROVE  /\ \A f \in Range(CanonicalFiles) : BundleBy(w, q)[f] = RunOf(w.commands[q])[f]
         /\ Range(CanonicalFiles) = FileNames \ {"receipt", "manifest"}
<1>1. /\ CanonicalFiles[1] = "scenario" /\ CanonicalFiles[2] = "contract" /\ CanonicalFiles[3] = "output"
      /\ CanonicalFiles[4] = "telemetry" /\ CanonicalFiles[5] = "summary" /\ CanonicalFiles[6] = "metrics"
      /\ DOMAIN CanonicalFiles = 1..6
  BY DEF CanonicalFiles
<1>2. \A i \in 1..6 : i \in {1, 2, 3, 4, 5, 6}
  OBVIOUS
<1>3. Range(CanonicalFiles) = FileNames \ {"receipt", "manifest"}
  <2>1. \A i \in 1..6 : CanonicalFiles[i] \in FileNames \ {"receipt", "manifest"}
    BY <1>1, <1>2 DEF FileNames
  <2>2. \A f \in FileNames \ {"receipt", "manifest"} : \E i \in 1..6 : CanonicalFiles[i] = f
    BY <1>1 DEF FileNames
  <2> QED BY <1>1, <2>1, <2>2 DEF Range
<1>4. Range(Files) = FileNames
  BY Orders
<1> DEFINE r == RunOf(w.commands[q])
<1>5. \A f \in FileNames : BundleBy(w, q)[f] =
        IF f = "receipt" THEN Receipt(r, q)
        ELSE IF f = "manifest" THEN Manifest(r, Receipt(r, q)) ELSE r[f]
  BY <1>4 DEF BundleBy, BundleOf
<1> HIDE DEF r
<1>6. \A f \in Range(CanonicalFiles) : BundleBy(w, q)[f] = r[f]
  BY <1>3, <1>5
<1> QED BY <1>3, <1>6 DEF r

\* When everything is read, the manifest is that of a run that was committed there.
LEMMA ManifestRead ==
  ASSUME StoreInv, NEW p \in Processes, AllRead(p), process[p].step \in {"reuse", "replay"}
  PROVE  \E q \in Processes :
           /\ Source(world, committed, world.commands[p].destination, q)
           /\ process[p].read["manifest"] = BundleBy(world, q)["manifest"]
<1>1. ReadOrder \in {Files, ReadOrder}
  OBVIOUS
<1>2. Range(ReadOrder) = FileNames
  BY ONLY <1>1, Orders
<1>3. "manifest" \in DOMAIN process[p].read
  BY <1>2 DEF AllRead, FileNames
<1>4. ReadInv(world, directory, committed, faults, p, process[p])
  BY DEF StoreInv, ProcessInv
<1> QED BY <1>3, <1>4 DEF ReadInv

\* After its bundle a command goes on to its replay or its result.
LEMMA AfterKeeps ==
  ASSUME NEW w \in Worlds, NEW disk, NEW done, NEW n, NEW p \in Processes, NEW you,
         you.step = IF w.commands[p].kind = "demo" THEN "replay" ELSE "result",
         you.staging = Absent, you.read = << >>, you.exit = None,
         Executes(w.commands[p]), w.commands[p].destination \in Destinations,
         Committed(done, w.commands[p].destination, w.commands[p])
  PROVE  ProcessInv(w, disk, done, n, p, you)
<1> DEFINE c == w.commands[p]
<1>1. c.kind \in {"demo", "run", "replay"} /\ c.kind # "replay"
  BY WorldsAssumption DEF Executes
<1>2. StepInv(c, you)
  BY <1>1 DEF StepInv, StepNames
<1>3. ResultInv(c, done, you)
  BY DEF ResultInv
<1>4. Idle(you)
  BY DEF Idle
<1> QED BY ONLY <1>2, <1>3, <1>4, Between, Zenon

\* An existing bundle is used again, or the staged one is found valid.
LEMMA JudgeKeeps ==
  ASSUME StoreInv, NEW p \in Processes, Reuse(p) \/ CheckStaged(p)
  PROVE  StoreInv'
<1> DEFINE me == process[p]
           c == world.commands[p]
           d == c.destination
<1>1. /\ StepInv(c, me) /\ StageInv(BundleBy(world, p), faults, me) /\ Shape /\ faults \in Nat
      /\ ReadInv(world, directory, committed, faults, p, me) /\ ResultInv(c, committed, me)
      /\ me.step \in {"check", "reuse"} /\ AllRead(p) /\ OnlyProcess /\ UNCHANGED faults
      /\ world \in Worlds
  BY DEF StoreInv, ProcessInv, Reuse, CheckStaged, AtStep
<1>2. /\ UNCHANGED <<world, directory, touched, committed>> /\ faults' = faults
  BY <1>1 DEF OnlyProcess
<1>3. Executes(c) /\ d \in Destinations /\ me.exit = None
  BY <1>1 DEF StepInv
<1>4. CASE Refuses(p, 30)
  <2>1. me.step \in {"check", "reuse", "replay"}
    BY ONLY <1>1
  <2>2. 30 # 0
    OBVIOUS
  <2> QED BY <1>1, <1>4, <2>1, <2>2, RefuseKeeps
<1>5. CASE Reuse(p) /\ ~Refuses(p, 30)
  <2> DEFINE changes == [step |-> AfterBundle(p), disposition |-> "reused", read |-> << >>]
             you == Updated(me, changes)
  <2>1. /\ BundleValid(me.read, RunId(Run(p).contract)) /\ Moves(p, changes) /\ me.step = "reuse"
    BY <1>5 DEF Reuse, AtStep
  <2>2. /\ you.step = AfterBundle(p) /\ you.read = << >> /\ you.exit = me.exit /\ you.staging = me.staging
    BY <1>1 DEF Shape, Updated, Fields
  <2> HIDE DEF you
  <2>3. me.staging = Absent
    BY <1>1, <2>1 DEF StageInv
  <2>4. Committed(committed, d, c)
    <3>1. me.read["manifest"].run = RunId(RunOf(c).contract)
      BY <2>1 DEF BundleValid, Run, Command
    <3>2. PICK q \in Processes :
            /\ Source(world, committed, d, q) /\ me.read["manifest"] = BundleBy(world, q)["manifest"]
      BY <1>1, <2>1, ManifestRead
    <3>3. RunId(RunOf(c).contract) = RunId(RunOf(world.commands[q]).contract)
      BY ONLY <3>1, <3>2, BundleManifest
    <3> QED BY <3>2, <3>3 DEF Source, Committed
  <2>5. AfterBundle(p) = IF c.kind = "demo" THEN "replay" ELSE "result"
    BY DEF AfterBundle, Command
  <2>6. ProcessInv(world, directory, committed, faults, p, you)
    BY <1>1, <1>3, <2>2, <2>3, <2>4, <2>5, AfterKeeps
  <2> HIDE DEF changes
  <2> QED BY <1>1, <1>2, <2>1, <2>6, OwnStep DEF you
<1>6. CASE CheckStaged(p) /\ ~Refuses(p, 30)
  <2> DEFINE you == Updated(me, [step |-> "rename", read |-> << >>])
  <2>1. Moves(p, [step |-> "rename", read |-> << >>]) /\ me.step = "check"
    BY <1>6 DEF CheckStaged, AtStep
  <2>2. you.step = "rename" /\ you.read = << >> /\ you.exit = None /\ you.staging = me.staging
    BY <1>1, <1>3 DEF Shape, Updated, Fields
  <2> HIDE DEF you
  <2>3. StepInv(c, you) /\ ResultInv(c, committed, you)
    BY <1>3, <2>2, WorldsAssumption DEF StepInv, StepNames, ResultInv
  <2>4. StageInv(BundleBy(world, p), faults, you)
    BY <1>1, <2>1, <2>2 DEF StageInv
  <2>5. ReadInv(world, directory, committed, faults, p, you)
    BY <2>2 DEF ReadInv
  <2>6. ProcessInv(world, directory, committed, faults, p, you)
    BY <2>3, <2>4, <2>5 DEF ProcessInv
  <2> QED BY <1>1, <1>2, <2>1, <2>6, OwnStep DEF you
<1> QED BY <1>4, <1>5, <1>6

\* The rename: the bundle appears whole, in a place where none was.
LEMMA CommitKeeps ==
  ASSUME StoreInv, NEW p \in Processes, Commit(p)
  PROVE  StoreInv'
<1> DEFINE me == process[p]
           c == world.commands[p]
           d == c.destination
<1>1. /\ StepInv(c, me) /\ StageInv(BundleBy(world, p), faults, me) /\ Shape /\ faults \in Nat
      /\ ReadInv(world, directory, committed, faults, p, me) /\ ResultInv(c, committed, me)
      /\ me.step = "rename" /\ world' = world /\ faults' = faults /\ world \in Worlds
      /\ DiskInv(world, directory, touched, committed) /\ world.edits = {}
  BY DEF StoreInv, ProcessInv, Commit, AtStep
<1>2. /\ Executes(c) /\ d \in Destinations /\ me.exit = None /\ me.staging = Directory(BundleBy(world, p))
      /\ me.read = << >>
  BY <1>1 DEF StepInv, StageInv, ReadInv
<1>3. CASE MayReplace(directory[d])
  <2> DEFINE changes == [step |-> AfterBundle(p), disposition |-> "created", staging |-> Absent]
             you == Updated(me, changes)
  <2>1. /\ directory' = [directory EXCEPT ![d] = Directory(BundleBy(world, p))]
        /\ committed' = committed \cup {<<d, RunId(RunOf(c).contract)>>}
        /\ touched' = touched \ {d} /\ Moves(p, changes)
    BY <1>2, <1>3 DEF Commit, Destination, Command, Run
  <2>2. /\ you.step = AfterBundle(p) /\ you.read = << >> /\ you.exit = None /\ you.staging = Absent
    BY <1>1, <1>2 DEF Shape, Updated, Fields
  <2> HIDE DEF you
  <2>3. /\ Shape' /\ process'[p] = you /\ \A q \in Processes \ {p} : process'[q] = process[q]
    BY <1>1, <2>1, Moved DEF you
  <2> HIDE DEF changes
  <2>4. Committed(committed', d, c) /\ committed \subseteq committed'
    BY <2>1 DEF Committed
  <2>5. AfterBundle(p) = IF c.kind = "demo" THEN "replay" ELSE "result"
    BY DEF AfterBundle, Command
  <2>6. ProcessInv(world, directory', committed', faults, p, you)
    BY <1>1, <1>2, <2>2, <2>4, <2>5, AfterKeeps
  <2>7. /\ DOMAIN directory' = Destinations /\ directory'[d] = Directory(BundleBy(world, p))
        /\ \A e \in Destinations \ {d} : directory'[e] = directory[e]
    BY <1>1, <1>2, <2>1 DEF DiskInv
  <2>8. \A e \in Destinations : directory'[e] = directory[e] \/ directory[e] \in Empty
    BY <1>3, <2>7 DEF MayReplace, Empty
  <2>9. ASSUME NEW q \in Processes
        PROVE  ProcessInv(world, directory', committed', faults, q, process'[q])
    <3>1. CASE q = p
      BY <2>3, <2>6, <3>1
    <3>2. CASE q # p
      <4>1. ProcessInv(world, directory, committed, faults, q, process[q])
        BY <1>1 DEF StoreInv
      <4>a. faults \in Nat
        BY ONLY <1>1, Zenon
      <4>0. faults <= faults
        BY ONLY <4>a
      <4>2. ProcessInv(world, directory', committed', faults, q, process[q])
        BY ONLY <4>0, <4>1, <4>a, <2>4, <2>8, q \in Processes, OthersKeep
      <4> QED BY <2>3, <3>2, <4>2
    <3> QED BY <3>1, <3>2
  <2>10. DiskInv(world, directory', touched', committed')
    <3>1. HoldsBundle(world, committed', d, directory'[d])
      BY <1>2, <2>4, <2>7 DEF HoldsBundle, Source
    <3>2. ASSUME NEW e \in Destinations, HoldsBundle(world, committed, e, directory[e])
          PROVE  HoldsBundle(world, committed', e, directory[e])
      BY <2>4, <3>2 DEF HoldsBundle, Source, Committed
    <3>3. ASSUME NEW e \in Destinations
          PROVE  /\ directory'[e] \in Empty \/ HoldsBundle(world, committed', e, directory'[e])
                 /\ e \notin touched' =>
                      directory'[e] = world.directory[e] \/ HoldsBundle(world, committed', e, directory'[e])
      <4>1. CASE e = d
        BY <3>1, <4>1
      <4>2. CASE e # d
        <5>1. directory'[e] = directory[e] /\ (e \notin touched' => e \notin touched)
          BY <2>1, <2>7, <4>2
        <5>2. /\ directory[e] \in Empty \/ HoldsBundle(world, committed, e, directory[e])
              /\ e \notin touched =>
                   directory[e] = world.directory[e] \/ HoldsBundle(world, committed, e, directory[e])
          BY <1>1 DEF DiskInv
        <5> QED BY <3>2, <5>1, <5>2, Zenon
      <4> QED BY <4>1, <4>2
    <3> QED BY <2>7, <3>3 DEF DiskInv
  <2> QED BY <1>1, <2>3, <2>9, <2>10 DEF StoreInv
<1>4. CASE ~MayReplace(directory[d])
  <2> DEFINE you == Updated(me, [step |-> "cleanup"])
  <2>1. Moves(p, [step |-> "cleanup"]) /\ UNCHANGED <<world, directory, touched, committed>>
    BY <1>1, <1>4 DEF Commit, Destination, Command
  <2>2. you.step = "cleanup" /\ you.exit = None
    BY <1>1, <1>2 DEF Shape, Updated, Fields
  <2> HIDE DEF you
  <2>3. StepInv(c, you) /\ StageInv(BundleBy(world, p), faults, you)
    BY <1>2, <2>2 DEF StepInv, StepNames, StageInv
  <2>4. ReadInv(world, directory, committed, faults, p, you) /\ ResultInv(c, committed, you)
    BY <2>2, WorldsAssumption DEF ReadInv, ResultInv
  <2>5. ProcessInv(world, directory, committed, faults, p, you)
    BY <2>3, <2>4 DEF ProcessInv
  <2> QED BY <1>1, <2>1, <2>5, OwnStep DEF you
<1> QED BY <1>3, <1>4

\* The replay, and the result file.
LEMMA EndKeeps ==
  ASSUME StoreInv, NEW p \in Processes, Replay(p) \/ Truncate(p) \/ WriteResult(p)
  PROVE  StoreInv'
<1> DEFINE me == process[p]
           c == world.commands[p]
<1>1. /\ StepInv(c, me) /\ StageInv(BundleBy(world, p), faults, me) /\ Shape /\ faults \in Nat
      /\ ReadInv(world, directory, committed, faults, p, me) /\ ResultInv(c, committed, me)
      /\ me.step \in {"replay", "result", "torn"} /\ faults' = faults
      /\ UNCHANGED <<world, directory, touched, committed>>
  BY DEF StoreInv, ProcessInv, Replay, Truncate, WriteResult, AtStep, OnlyProcess
<1>2. me.staging = Absent /\ me.exit = None
  BY <1>1 DEF StepInv, StageInv
<1>3. ASSUME NEW x, Exits(p, x), me.step \in {"replay", "torn"} PROVE StoreInv'
  <2> DEFINE you == Updated(me, [step |-> "done", exit |-> x])
  <2>1. you.step = "done" /\ you.staging = Absent /\ you.exit = x
    BY <1>1, <1>2 DEF Shape, Updated, Fields
  <2> HIDE DEF you
  <2>2. ResultInv(c, committed, you)
    BY <1>1, <1>3, <2>1 DEF ResultInv, StepInv
  <2>3. ProcessInv(world, directory, committed, faults, p, you)
    BY <2>1, <2>2, Ended
  <2> QED BY <1>1, <1>3, <2>3, OwnStep DEF you, Exits
<1>4. CASE Replay(p)
  BY <1>3, <1>4 DEF Replay, AtStep
<1>5. CASE Truncate(p)
  <2> DEFINE you == Updated(me, [step |-> "torn"])
  <2>1. Moves(p, [step |-> "torn"]) /\ me.step = "result"
    BY <1>5 DEF Truncate, AtStep
  <2>2. you.step = "torn" /\ you.staging = Absent /\ you.exit = None /\ you.read = me.read
    BY <1>1, <1>2 DEF Shape, Updated, Fields
  <2> HIDE DEF you
  <2>3. you.read = << >> /\ you.step \in {"look", "stage", "reuse", "replay", "result", "torn"}
    BY <1>1, <2>1, <2>2 DEF ReadInv
  <2>4. StepInv(c, you) /\ ResultInv(c, committed, you)
    BY <1>1, <2>1, <2>2 DEF StepInv, StepNames, ResultInv
  <2>5. ProcessInv(world, directory, committed, faults, p, you)
    <3>1. Idle(you)
      BY <2>2, <2>3 DEF Idle
    <3> QED BY ONLY <2>4, <3>1, Between, Zenon
  <2> QED BY <1>1, <2>1, <2>5, OwnStep DEF you
<1>6. CASE WriteResult(p)
  BY <1>3, <1>6 DEF WriteResult, AtStep
<1> QED BY <1>4, <1>5, <1>6

\* Somebody removes a bundle, or makes a directory where none is.
LEMMA ChangeKeeps ==
  ASSUME StoreInv, NEW d \in Destinations, Others(d)
  PROVE  StoreInv'
<1>1. PICK x \in {Absent, EmptyDirectory} : Changes(d, x)
  BY DEF Others, RemoveBundle, MakeDirectory, StoreInv
<1>2. /\ faults' = faults + 1 /\ directory' = [directory EXCEPT ![d] = x] /\ touched' = touched \cup {d}
      /\ UNCHANGED <<world, process, committed>>
  BY <1>1 DEF Changes
<1>3. faults \in Nat /\ faults' \in Nat /\ faults <= faults' /\ faults' # 0
  <2>1. faults \in Nat
    BY DEF StoreInv
  <2> QED BY <1>2, <2>1
<1>4. /\ DOMAIN directory' = Destinations /\ directory'[d] \in Empty
      /\ \A e \in Destinations \ {d} : directory'[e] = directory[e]
  BY <1>2 DEF StoreInv, DiskInv, Empty
<1>5. DiskInv(world, directory', touched', committed)
  <2>1. ASSUME NEW e \in Destinations
        PROVE  /\ directory'[e] \in Empty \/ HoldsBundle(world, committed, e, directory'[e])
               /\ e \notin touched' =>
                    directory'[e] = world.directory[e] \/ HoldsBundle(world, committed, e, directory'[e])
    <3>1. CASE e = d
      BY <1>2, <1>4, <3>1
    <3>2. CASE e # d
      BY <1>2, <1>4, <3>2 DEF StoreInv, DiskInv
    <3> QED BY <3>1, <3>2
  <2> QED BY <1>4, <2>1 DEF DiskInv
<1>6. ASSUME NEW q \in Processes
      PROVE  ProcessInv(world, directory', committed, faults', q, process[q])
  <2>1. ProcessInv(world, directory, committed, faults, q, process[q])
    BY DEF StoreInv
  <2> QED BY ONLY <1>3, <2>1, q \in Processes, OthersKeep
<1> QED BY <1>2, <1>3, <1>5, <1>6 DEF StoreInv, Shape

\* In the beginning nothing is staged, read or committed.
LEMMA StoreBegins == world.edits = {} /\ Init => StoreInv
<1> SUFFICES ASSUME world.edits = {}, Init PROVE StoreInv
  OBVIOUS
<1>1. world \in Worlds /\ directory = world.directory /\ touched = {} /\ committed = {} /\ faults = 0
  BY DEF Init
<1>2. DiskInv(world, directory, touched, committed)
  BY <1>1, WorldsAssumption DEF DiskInv, Empty
<1>3. Shape
  BY DEF Init, Shape, Fields
<1>4. ASSUME NEW p \in Processes
      PROVE  ProcessInv(world, directory, committed, faults, p, process[p])
  <2>1. /\ process[p].step = "start" /\ process[p].staging = Absent /\ process[p].read = << >>
        /\ process[p].exit = None
    BY DEF Init
  <2>2. StepInv(world.commands[p], process[p])
    BY <2>1 DEF StepInv, StepNames
  <2>3. StageInv(BundleBy(world, p), faults, process[p])
    BY <2>1 DEF StageInv
  <2>4. ReadInv(world, directory, committed, faults, p, process[p])
    BY <2>1 DEF ReadInv
  <2>5. ResultInv(world.commands[p], committed, process[p])
    BY <2>1, WorldsAssumption DEF ResultInv
  <2> QED BY <2>2, <2>3, <2>4, <2>5 DEF ProcessInv
<1> QED BY <1>1, <1>2, <1>3, <1>4 DEF StoreInv

\* Every step keeps the invariant.
LEMMA StoreStep == StoreInv /\ [Next]_vars => StoreInv'
<1> SUFFICES ASSUME StoreInv, [Next]_vars PROVE StoreInv'
  OBVIOUS
<1>1. ASSUME NEW p \in Processes, Steps(p) \/ DiskFails(p) \/ Crash(p) PROVE StoreInv'
  <2>1. CASE Start(p) \/ Look(p)
    BY <2>1, StartKeeps
  <2>2. CASE CreateStaging(p) \/ WriteFile(p)
    BY <2>2, WriteKeeps
  <2>3. CASE ReadFile(p)
    BY <2>3, ReadKeeps
  <2>4. CASE Reuse(p) \/ CheckStaged(p)
    BY <2>4, JudgeKeeps
  <2>5. CASE Commit(p)
    BY <2>5, CommitKeeps
  <2>6. CASE DiskFails(p) \/ Crash(p) \/ Cleanup(p)
    BY <2>6, FaultKeeps
  <2>7. CASE Replay(p) \/ Truncate(p) \/ WriteResult(p)
    BY <2>7, EndKeeps
  <2> QED BY <1>1, <2>1, <2>2, <2>3, <2>4, <2>5, <2>6, <2>7 DEF Steps
<1>2. ASSUME NEW d \in Destinations, Others(d) PROVE StoreInv'
  BY <1>2, ChangeKeeps
<1>3. CASE UNCHANGED vars
  BY <1>3 DEF vars, StoreInv, Shape
<1>4. CASE Next
  BY <1>1, <1>2, <1>3, <1>4 DEF Next, Done
<1> QED BY <1>3, <1>4

------------------------------------------------------------------------------
(* Bundles are immutable *)

\* No command changes or removes a bundle, whatever the others do to the directories and
\* to the files in them (persist: the destination only changes by a rename onto nothing).
THEOREM BundlesImmutable == Spec => BundlesAreImmutable
<1> DEFINE Places == DOMAIN directory = Destinations
           Kept == \A d \in Destinations :
                     directory'[d] # directory[d] => d \in touched' \/ directory[d] \in {Absent, EmptyDirectory}
<1>1. Init => Places
  BY WorldsAssumption DEF Init
<1>2. Places /\ [Next]_vars => Places' /\ Kept
  <2> SUFFICES ASSUME Places, [Next]_vars PROVE Places' /\ Kept
    OBVIOUS
  <2>1. CASE UNCHANGED directory
    BY <2>1
  <2>2. ASSUME NEW p \in Processes, Commit(p) PROVE Places' /\ Kept
    <3>1. CASE MayReplace(directory[Destination(p)])
      <4>1. PICK x : directory' = [directory EXCEPT ![Destination(p)] = x]
        BY <2>2, <3>1 DEF Commit
      <4> QED BY <3>1, <4>1 DEF MayReplace
    <3>2. CASE ~MayReplace(directory[Destination(p)])
      BY <2>1, <2>2, <3>2 DEF Commit
    <3> QED BY <3>1, <3>2
  <2>3. ASSUME NEW d \in Destinations, Others(d) PROVE Places' /\ Kept
    <3>1. PICK x : Changes(d, x)
      BY <2>3 DEF Others, EditBundle, RemoveBundle, MakeDirectory
    <3>2. directory' = [directory EXCEPT ![d] = x] /\ d \in touched'
      BY <3>1 DEF Changes
    <3> QED BY <3>2
  <2>4. ASSUME NEW p \in Processes, Steps(p) \/ DiskFails(p) \/ Crash(p), ~Commit(p)
        PROVE  UNCHANGED directory
    BY <2>4 DEF Steps, Start, Look, CreateStaging, WriteFile, ReadFile, Reuse, CheckStaged, Cleanup,
                Replay, Truncate, WriteResult, DiskFails, Crash, OnlyProcess
  <2>5. CASE UNCHANGED vars
    BY <2>1, <2>5 DEF vars
  <2>6. CASE Next
    BY <2>1, <2>2, <2>3, <2>4, <2>5, <2>6 DEF Next, Done
  <2> QED BY <2>5, <2>6
<1> HIDE DEF Places
<1>3. Places /\ [Next]_vars => [Kept]_vars
  BY <1>2
<1>4. Places /\ [Next]_vars => Places'
  BY <1>2
<1>5. Spec => []Places
  BY <1>1, <1>4, PTL DEF Spec
<1> HIDE DEF Kept
<1>6. Spec => [][Kept]_vars
  BY <1>3, <1>5, PTL DEF Spec
<1> QED BY <1>6 DEF Kept, BundlesAreImmutable

==============================================================================
