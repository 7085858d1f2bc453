----------------------------- MODULE RecorderProofs -----------------------------
(***************************************************************************)
(* Theorems about Recorder, for any dashboards, any number of changes to   *)
(* them and any number of recorders that follow one another.               *)
(***************************************************************************)
EXTENDS Recorder, FiniteSetTheorems, SequenceTheorems, TLAPS

--------------------------------------------------------------------------------
(* Queues                                                                  *)

(* What is left of a queue when some of it has gone, in its order.         *)
Part(p, q) ==
  \E f \in [DOMAIN p -> DOMAIN q] :
    /\ \A m, n \in DOMAIN p : m < n => f[m] < f[n]
    /\ \A n \in DOMAIN p : p[n] = q[f[n]]

LEMMA TailIsPart ==
  ASSUME NEW S, NEW q \in Seq(S), q # <<>>
  PROVE  /\ Tail(q) \in Seq(S) /\ Part(Tail(q), q)
         /\ Head(q) = q[1] /\ 1 \in DOMAIN q
  <1>1. /\ Len(q) \in Nat \ {0} /\ DOMAIN q = 1 .. Len(q)
        /\ Tail(q) \in Seq(S) /\ Len(Tail(q)) = Len(q) - 1
        /\ DOMAIN Tail(q) = 1 .. Len(q) - 1
        /\ \A n \in 1 .. Len(q) - 1 : Tail(q)[n] = q[n + 1]
        /\ Head(q) = q[1]
    OBVIOUS
  <1> DEFINE f == [n \in DOMAIN Tail(q) |-> n + 1]
  <1>2. f \in [DOMAIN Tail(q) -> DOMAIN q]
    BY <1>1
  <1>3. \A m, n \in DOMAIN Tail(q) : m < n => f[m] < f[n]
    BY <1>1
  <1>4. \A n \in DOMAIN Tail(q) : Tail(q)[n] = q[f[n]]
    BY <1>1
  <1> HIDE DEF f
  <1>5. Part(Tail(q), q)
    BY <1>2, <1>3, <1>4, ZenonT(40) DEF Part
  <1>6. QED
    BY <1>1, <1>5

LEMMA AppendFacts ==
  ASSUME NEW S, NEW q \in Seq(S), NEW e \in S
  PROVE  /\ Append(q, e) \in Seq(S) /\ Append(q, e) # <<>>
         /\ Len(q) \in Nat /\ DOMAIN q = 1 .. Len(q)
         /\ DOMAIN Append(q, e) = 1 .. Len(q) + 1
         /\ \A n \in DOMAIN q : Append(q, e)[n] = q[n]
         /\ Append(q, e)[Len(q) + 1] = e
         /\ q # <<>> => Head(Append(q, e)) = Head(q)
  OBVIOUS

LEMMA RemoveAtFacts ==
  ASSUME NEW S, NEW q \in Seq(S), NEW i \in DOMAIN q
  PROVE  /\ RemoveAt(q, i) \in Seq(S)
         /\ Len(q) \in Nat \ {0} /\ DOMAIN q = 1 .. Len(q)
         /\ DOMAIN RemoveAt(q, i) = 1 .. Len(q) - 1
         /\ \A n \in 1 .. Len(q) - 1 :
              RemoveAt(q, i)[n] = IF n < i THEN q[n] ELSE q[n + 1]
  <1>1. Len(q) \in Nat \ {0} /\ DOMAIN q = 1 .. Len(q) /\ i \in 1 .. Len(q)
    OBVIOUS
  <1> DEFINE a == SubSeq(q, 1, i - 1)
             b == SubSeq(q, i + 1, Len(q))
  <1>2. /\ a \in Seq(S) /\ Len(a) = i - 1
        /\ \A n \in 1 .. i - 1 : a[n] = q[n]
    BY <1>1
  <1>3. /\ b \in Seq(S) /\ Len(b) = Len(q) - i
        /\ \A n \in 1 .. Len(q) - i : b[n] = q[i + n]
    BY <1>1, SMTT(30)
  <1> HIDE DEF a, b
  <1>4. /\ a \o b \in Seq(S) /\ Len(a \o b) = Len(q) - 1
        /\ \A n \in 1 .. Len(q) - 1 : (a \o b)[n] = IF n < i THEN a[n] ELSE b[n - (i - 1)]
    <2>1. /\ a \o b \in Seq(S) /\ Len(a \o b) = Len(a) + Len(b)
          /\ \A n \in 1 .. Len(a) + Len(b) :
               (a \o b)[n] = IF n <= Len(a) THEN a[n] ELSE b[n - Len(a)]
      BY <1>2, <1>3, ConcatProperties
    <2>2. QED
      BY <2>1, <1>1, <1>2, <1>3, SMTT(30)
  <1>5. \A n \in 1 .. Len(q) - 1 : (a \o b)[n] = IF n < i THEN q[n] ELSE q[n + 1]
    <2>1. ASSUME NEW n \in 1 .. Len(q) - 1, n < i PROVE a[n] = q[n]
      BY <2>1, <1>1, <1>2
    <2>2. ASSUME NEW n \in 1 .. Len(q) - 1, ~(n < i) PROVE b[n - (i - 1)] = q[n + 1]
      <3>1. n - (i - 1) \in 1 .. Len(q) - i /\ i + (n - (i - 1)) = n + 1
        BY <2>2, <1>1
      <3>2. QED
        BY <3>1, <1>3
    <2>3. QED
      BY <1>4, <2>1, <2>2
  <1>6. RemoveAt(q, i) = a \o b
    BY DEF RemoveAt, a, b
  <1>7. DOMAIN (a \o b) = 1 .. Len(q) - 1
    BY <1>4
  <1>8. QED
    BY <1>1, <1>4, <1>5, <1>6, <1>7

(* Cancelling the one place an opening pass stands in leaves no other, and *)
(* the rest in order.                                                      *)
LEMMA WithoutFacts ==
  ASSUME NEW S, NEW q \in Seq(S), NEW P \in SUBSET DOMAIN q,
         \A m, n \in P : m = n
  PROVE  /\ Without(q, P) \in Seq(S)
         /\ \E f \in [DOMAIN Without(q, P) -> DOMAIN q \ P] :
              /\ \A m, n \in DOMAIN Without(q, P) : m < n => f[m] < f[n]
              /\ \A n \in DOMAIN Without(q, P) : Without(q, P)[n] = q[f[n]]
         /\ q # <<>> /\ 1 \notin P =>
              Without(q, P) # <<>> /\ Head(Without(q, P)) = Head(q)
         /\ q = <<>> => Without(q, P) = <<>>
  <1>1. CASE P = {}
    <2>1. Without(q, P) = q
      BY <1>1 DEF Without
    <2> DEFINE f == [n \in DOMAIN q |-> n]
    <2>2. /\ f \in [DOMAIN q -> DOMAIN q \ P]
          /\ \A m, n \in DOMAIN q : m < n => f[m] < f[n]
          /\ \A n \in DOMAIN q : q[n] = q[f[n]]
      BY <1>1
    <2> HIDE DEF f
    <2>3. \E g \in [DOMAIN q -> DOMAIN q \ P] :
            /\ \A m, n \in DOMAIN q : m < n => g[m] < g[n]
            /\ \A n \in DOMAIN q : q[n] = q[g[n]]
      BY <2>2
    <2>4. QED
      BY <2>1, <2>3
  <1>2. CASE P # {}
    <2>1. PICK i \in P : P = {i} /\ Without(q, P) = RemoveAt(q, i)
      BY <1>2 DEF Without
    <2> DEFINE r == RemoveAt(q, i)
    <2>2. /\ r \in Seq(S) /\ DOMAIN q = 1 .. Len(q) /\ Len(q) \in Nat \ {0}
          /\ DOMAIN r = 1 .. Len(q) - 1
          /\ \A n \in 1 .. Len(q) - 1 : r[n] = IF n < i THEN q[n] ELSE q[n + 1]
      BY <2>1, RemoveAtFacts
    <2> HIDE DEF r
    <2> DEFINE f == [n \in DOMAIN r |-> IF n < i THEN n ELSE n + 1]
    <2>3. f \in [DOMAIN r -> DOMAIN q \ P]
      BY <2>1, <2>2
    <2>4. \A m, n \in DOMAIN r : m < n => f[m] < f[n]
      BY <2>1, <2>2
    <2>5. \A n \in DOMAIN r : r[n] = q[f[n]]
      BY <2>1, <2>2
    <2>6. ASSUME 1 \notin P PROVE r # <<>> /\ Head(r) = Head(q)
      <3>1. i \in 1 .. Len(q) /\ i # 1
        BY <2>1, <2>2, <2>6
      <3>2. 1 \in DOMAIN r /\ r[1] = q[1]
        BY <3>1, <2>2
      <3>3. QED
        BY <3>2, <2>2
    <2>7. q # <<>>
      BY <2>1
    <2>8. Without(q, P) = r
      BY <2>1 DEF r
    <2> HIDE DEF f
    <2>9. \E g \in [DOMAIN r -> DOMAIN q \ P] :
            /\ \A m, n \in DOMAIN r : m < n => g[m] < g[n]
            /\ \A n \in DOMAIN r : r[n] = q[g[n]]
      BY <2>3, <2>4, <2>5
    <2>10. QED
      <3> HIDE DEF r
      <3>1. r \in Seq(S) /\ (q # <<>> /\ 1 \notin P => r # <<>> /\ Head(r) = Head(q))
        BY <2>2, <2>6
      <3>2. QED
        BY <3>1, <2>7, <2>8, <2>9
  <1>3. QED
    BY <1>1, <1>2

--------------------------------------------------------------------------------
(* The invariant                                                           *)

(* A dashboard that is gone was deleted after its last save, and no moment *)
(* is yet to come.                                                         *)
MomentsOK ==
  \A k \in Keys :
    /\ live[k].saved <= clock /\ live[k].gone <= clock
    /\ live[k].is = "gone" => live[k].saved = 0 \/ live[k].saved < live[k].gone

(* Nothing is recorded, read or about to be written that was not saved.    *)
HeadOK ==
  \A k \in Keys :
    /\ head[k].is = "saved" => head[k].at # 0
    /\ head[k].is # "forgotten" => head[k].at <= live[k].saved

LooseOK ==
  \A job \in loose : ~job.deletes => job.at # 0 /\ job.at <= live[job.key].saved

Read(i, configs) ==
  \A k \in Keys :
    /\ configs[k] <= live[k].saved
    /\ configs[k] # 0 =>
         \A n \in DOMAIN writing[i] : writing[i][n].configs[k] <= configs[k]

ReadsOK ==
  \A i \in Instances :
    /\ Read(i, walk[i].configs)
    /\ \A n \in DOMAIN writing[i], k \in Keys : writing[i][n].configs[k] <= live[k].saved

(* What the holder of _writing has left to do is in what was read.         *)
TurnsOK ==
  \A i \in Instances :
    /\ turn[i].active =>
         /\ turn[i].writes \subseteq Entered(Head(writing[i]))
         /\ turn[i].deletions \cap Head(writing[i]).known = {}
    /\ ~turn[i].active => turn[i].writes = {}

(* One instance reads one dashboard after the other, and what it has read  *)
(* waits in that order: of each dashboard the earlier state comes first,   *)
(* and what was not known any more was deleted after the states before it. *)
Sorted(q) ==
  \A m, n \in DOMAIN q, k \in Keys :
    m < n /\ q[m].configs[k] # 0 /\ q[n].configs[k] # 0
      => q[m].configs[k] <= q[n].configs[k]

GoneSince(q) ==
  \A m, n \in DOMAIN q : \A k \in Keys \ q[n].known :
    m <= n /\ q[m].configs[k] # 0 => q[m].configs[k] < live[k].gone

QueuesOK == \A i \in Instances : Sorted(writing[i]) /\ GoneSince(writing[i])

(* Whatever waits to be written is of states no older than the history's,  *)
(* and of deletions after them.                                            *)
Ahead(configs) ==
  \A k \in Keys :
    head[k].is # "forgotten" /\ configs[k] # 0 => head[k].at <= configs[k]

DeletedSince(known) == \A k \in Keys \ known : head[k].is = "saved" => head[k].at < live[k].gone

NotBehind ==
  \A i \in Instances :
    /\ walk[i].active => Ahead(walk[i].configs)
    /\ \A n \in DOMAIN writing[i] :
         Ahead(writing[i][n].configs) /\ DeletedSince(writing[i][n].known)

(* One recorder is at work: the one in place, or one that was unloaded     *)
(* before any other began.                                                 *)
Alone ==
  /\ \A i, j \in Instances : ~Idle(i) /\ ~Idle(j) => i = j
  /\ phase = "open" => \A i \in Instances : ~Idle(i) => i = now
  /\ loose = {}

(* The opening pass stands in one place at most.                           *)
OneOpening ==
  \A i \in Instances :
    /\ \A m, n \in DOMAIN reading[i] :
         reading[i][m] = Opening /\ reading[i][n] = Opening => m = n
    /\ \A m, n \in DOMAIN writing[i] :
         writing[i][m].task = Opening /\ writing[i][n].task = Opening => m = n

(* Panels are listened for, and the opening pass is under way, only while  *)
(* the recorder that began it is in place.                                 *)
OpeningsOK ==
  /\ armed \/ pending => phase = "open"
  /\ \A i \in Instances :
       /\ \A n \in DOMAIN reading[i] : reading[i][n] = Opening =>
            phase = "open" /\ opened /\ i = now
       /\ \A n \in DOMAIN writing[i] : writing[i][n].task = Opening =>
            phase = "open" /\ opened /\ i = now
       /\ \A m \in DOMAIN reading[i], n \in DOMAIN writing[i] :
            ~(reading[i][m] = Opening /\ writing[i][n].task = Opening)

RecorderInv ==
  /\ RecorderTypeOK
  /\ MomentsOK /\ HeadOK /\ LooseOK /\ ReadsOK /\ TurnsOK /\ QueuesOK
  /\ OneOpening /\ OpeningsOK
  /\ ~overlapped => Alone /\ NotBehind

--------------------------------------------------------------------------------
(* Types                                                                   *)

USE KeysAssumption, TasksAssumption, ClockAssumption, InstancesAssumption

LEMMA PresentFacts ==
  ASSUME RecorderTypeOK
  PROVE  Present \in SUBSET Keys /\ Cardinality(Present) \in 0 .. Cardinality(Keys)
  <1>1. Present \subseteq Keys
    BY DEF Present
  <1>2. Cardinality(Keys) \in Nat /\ Cardinality(Present) \in Nat
        /\ Cardinality(Present) <= Cardinality(Keys)
    BY <1>1, FS_Subset, FS_CardinalityType
  <1>3. QED
    BY <1>1, <1>2

LEMMA NothingIsTyped ==
  /\ NoWalk \in [active : BOOLEAN, seen : SUBSET Keys, size : 0 .. Cardinality(Keys),
                 configs : [Keys -> Stamps]]
  /\ ~NoWalk.active
  /\ NoTurn \in [active : BOOLEAN, deletions : SUBSET Keys, writes : SUBSET Keys]
  /\ ~NoTurn.active /\ NoTurn.writes = {}
  <1>1. Cardinality(Keys) \in Nat
    BY FS_CardinalityType
  <1>2. QED
    BY <1>1 DEF NoWalk, NoTurn, Stamps

(* A capture joins a queue that is typed.                                  *)
LEMMA CaptureFacts ==
  ASSUME RecorderTypeOK, NEW task \in Tasks, Capture(task)
  PROVE  /\ reading' \in [Instances -> Seq(Tasks)]
         /\ \A i \in Instances : reading[i] # <<>> =>
              reading'[i] # <<>> /\ Head(reading'[i]) = Head(reading[i])
         /\ \A i \in Instances \ {now} : reading'[i] = reading[i]
         /\ DOMAIN reading'[now] = 1 .. Len(reading[now]) + 1
         /\ Len(reading[now]) \in Nat /\ DOMAIN reading[now] = 1 .. Len(reading[now])
         /\ \A n \in DOMAIN reading[now] : reading'[now][n] = reading[now][n]
         /\ reading'[now][Len(reading[now]) + 1] = task
  <1>1. now \in Instances /\ reading \in [Instances -> Seq(Tasks)]
    BY DEF RecorderTypeOK
  <1>2. reading' = [reading EXCEPT ![now] = Append(@, task)]
    BY DEF Capture
  <1>3. /\ Append(reading[now], task) \in Seq(Tasks) /\ Append(reading[now], task) # <<>>
        /\ Len(reading[now]) \in Nat /\ DOMAIN reading[now] = 1 .. Len(reading[now])
        /\ DOMAIN Append(reading[now], task) = 1 .. Len(reading[now]) + 1
        /\ \A n \in DOMAIN reading[now] : Append(reading[now], task)[n] = reading[now][n]
        /\ Append(reading[now], task)[Len(reading[now]) + 1] = task
        /\ reading[now] # <<>> => Head(Append(reading[now], task)) = Head(reading[now])
    BY <1>1, AppendFacts
  <1>4. QED
    BY <1>1, <1>2, <1>3

(* A read joins the queue for _writing at its end.                         *)
LEMMA HandOverFacts ==
  ASSUME RecorderTypeOK, NEW i \in Instances, reading[i] # <<>>,
         NEW configs \in [Keys -> Stamps], HandOver(i, configs)
  PROVE  /\ reading' = [reading EXCEPT ![i] = Tail(@)]
         /\ walk' = [walk EXCEPT ![i] = NoWalk]
         /\ \E kept \in [Keys -> Stamps] :
              /\ \A k \in Keys : kept[k] \in {0, configs[k]}
              /\ [task |-> Head(reading[i]), configs |-> kept, known |-> Present] \in Reads
              /\ writing' = [writing EXCEPT ![i] = Append(@,
                   [task |-> Head(reading[i]), configs |-> kept, known |-> Present])]
  <1> DEFINE kept == [k \in Keys |->
                        IF Head(reading[i]) \in Passes \cup {k} THEN configs[k] ELSE 0]
  <1>1. /\ reading' = [reading EXCEPT ![i] = Tail(@)]
        /\ walk' = [walk EXCEPT ![i] = NoWalk]
        /\ writing' = [writing EXCEPT ![i] = Append(@,
             [task |-> Head(reading[i]), configs |-> kept, known |-> Present])]
    BY DEF HandOver, InTurn
  <1>2. kept \in [Keys -> Stamps] /\ \A k \in Keys : kept[k] \in {0, configs[k]}
    BY DEF Stamps
  <1> HIDE DEF kept
  <1>3. Head(reading[i]) \in Tasks
    BY HeadTailProperties DEF RecorderTypeOK
  <1>4. Present \in SUBSET Keys
    BY PresentFacts
  <1>5. [task |-> Head(reading[i]), configs |-> kept, known |-> Present] \in Reads
    BY <1>2, <1>3, <1>4 DEF Reads
  <1>6. QED
    BY <1>1, <1>2, <1>5

LEMMA HandOverIsTyped ==
  ASSUME RecorderTypeOK, NEW i \in Instances, reading[i] # <<>>,
         NEW configs \in [Keys -> Stamps], HandOver(i, configs)
  PROVE  /\ reading' \in [Instances -> Seq(Tasks)]
         /\ walk' \in [Instances -> [active : BOOLEAN, seen : SUBSET Keys,
                                     size : 0 .. Cardinality(Keys), configs : [Keys -> Stamps]]]
         /\ writing' \in [Instances -> Seq(Reads)]
         /\ \A j \in Instances : walk'[j].active => reading'[j] # <<>>
         /\ \A j \in Instances : writing[j] # <<>> =>
              writing'[j] # <<>> /\ Head(writing'[j]) = Head(writing[j])
  <1>1. PICK read \in Reads : writing' = [writing EXCEPT ![i] = Append(@, read)]
    BY HandOverFacts
  <1>2. reading' = [reading EXCEPT ![i] = Tail(@)] /\ walk' = [walk EXCEPT ![i] = NoWalk]
    BY HandOverFacts
  <1>3. writing[i] \in Seq(Reads) /\ reading[i] \in Seq(Tasks)
    BY DEF RecorderTypeOK
  <1>4. /\ Append(writing[i], read) \in Seq(Reads) /\ Append(writing[i], read) # <<>>
        /\ writing[i] # <<>> => Head(Append(writing[i], read)) = Head(writing[i])
    BY <1>3, AppendFacts
  <1>5. Tail(reading[i]) \in Seq(Tasks)
    BY <1>3, TailIsPart
  <1>6. reading' \in [Instances -> Seq(Tasks)]
    BY <1>2, <1>5 DEF RecorderTypeOK
  <1>7. walk' \in [Instances -> [active : BOOLEAN, seen : SUBSET Keys,
                                 size : 0 .. Cardinality(Keys), configs : [Keys -> Stamps]]]
    BY <1>2, NothingIsTyped DEF RecorderTypeOK
  <1>8. writing' \in [Instances -> Seq(Reads)]
    BY <1>1, <1>4 DEF RecorderTypeOK
  <1>9. \A j \in Instances : walk'[j].active => reading'[j] # <<>>
    BY <1>2, NothingIsTyped DEF RecorderTypeOK
  <1>10. \A j \in Instances : writing[j] # <<>> =>
           writing'[j] # <<>> /\ Head(writing'[j]) = Head(writing[j])
    BY <1>1, <1>4 DEF RecorderTypeOK
  <1>11. QED
    BY <1>6, <1>7, <1>8, <1>9, <1>10

(* What the cancelled opening pass leaves behind.                          *)
LEMMA UnloadFacts ==
  ASSUME RecorderTypeOK, Unload,
         \A m, n \in DOMAIN reading[now] :
           reading[now][m] = Opening /\ reading[now][n] = Opening => m = n,
         \A m, n \in DOMAIN writing[now] :
           writing[now][m].task = Opening /\ writing[now][n].task = Opening => m = n
  PROVE  /\ reading' \in [Instances -> Seq(Tasks)] /\ writing' \in [Instances -> Seq(Reads)]
         /\ \A j \in Instances \ {now} : reading'[j] = reading[j] /\ writing'[j] = writing[j]
         /\ Part(writing'[now], writing[now])
         /\ \A n \in DOMAIN reading'[now] : reading'[now][n] # Opening
         /\ \A n \in DOMAIN writing'[now] : writing'[now][n].task # Opening
         /\ reading[now] = <<>> => reading'[now] = <<>>
         /\ writing[now] = <<>> => writing'[now] = <<>>
         /\ reading[now] # <<>> /\ Head(reading[now]) # Opening =>
              reading'[now] # <<>> /\ Head(reading'[now]) = Head(reading[now])
         /\ writing[now] # <<>> /\ Head(writing[now]).task # Opening =>
              writing'[now] # <<>> /\ Head(writing'[now]) = Head(writing[now])
  <1> DEFINE R == {n \in DOMAIN reading[now] : reading[now][n] = Opening}
             W == {n \in DOMAIN writing[now] : writing[now][n].task = Opening}
             r == Without(reading[now], R)
             w == Without(writing[now], W)
  <1>1. /\ now \in Instances
        /\ reading \in [Instances -> Seq(Tasks)] /\ writing \in [Instances -> Seq(Reads)]
        /\ reading' = [reading EXCEPT ![now] = r] /\ writing' = [writing EXCEPT ![now] = w]
    BY DEF RecorderTypeOK, Unload
  <1>2. reading[now] \in Seq(Tasks) /\ writing[now] \in Seq(Reads)
    BY <1>1
  <1>3. R \in SUBSET DOMAIN reading[now] /\ (\A m, n \in R : m = n)
    OBVIOUS
  <1>4. W \in SUBSET DOMAIN writing[now] /\ (\A m, n \in W : m = n)
    OBVIOUS
  <1>5. /\ r \in Seq(Tasks)
        /\ \E f \in [DOMAIN r -> DOMAIN reading[now] \ R] :
             /\ \A m, n \in DOMAIN r : m < n => f[m] < f[n]
             /\ \A n \in DOMAIN r : r[n] = reading[now][f[n]]
        /\ reading[now] # <<>> /\ 1 \notin R => r # <<>> /\ Head(r) = Head(reading[now])
        /\ reading[now] = <<>> => r = <<>>
    <2> SUFFICES ASSUME NEW q \in Seq(Tasks), NEW P \in SUBSET DOMAIN q, \A m, n \in P : m = n
        PROVE  /\ Without(q, P) \in Seq(Tasks)
               /\ \E f \in [DOMAIN Without(q, P) -> DOMAIN q \ P] :
                    /\ \A m, n \in DOMAIN Without(q, P) : m < n => f[m] < f[n]
                    /\ \A n \in DOMAIN Without(q, P) : Without(q, P)[n] = q[f[n]]
               /\ q # <<>> /\ 1 \notin P =>
                    Without(q, P) # <<>> /\ Head(Without(q, P)) = Head(q)
               /\ q = <<>> => Without(q, P) = <<>>
      BY <1>2, <1>3, Zenon
    <2>1. QED
      BY WithoutFacts
  <1>6. /\ w \in Seq(Reads)
        /\ \E f \in [DOMAIN w -> DOMAIN writing[now] \ W] :
             /\ \A m, n \in DOMAIN w : m < n => f[m] < f[n]
             /\ \A n \in DOMAIN w : w[n] = writing[now][f[n]]
        /\ writing[now] # <<>> /\ 1 \notin W => w # <<>> /\ Head(w) = Head(writing[now])
        /\ writing[now] = <<>> => w = <<>>
    <2> SUFFICES ASSUME NEW q \in Seq(Reads), NEW P \in SUBSET DOMAIN q, \A m, n \in P : m = n
        PROVE  /\ Without(q, P) \in Seq(Reads)
               /\ \E f \in [DOMAIN Without(q, P) -> DOMAIN q \ P] :
                    /\ \A m, n \in DOMAIN Without(q, P) : m < n => f[m] < f[n]
                    /\ \A n \in DOMAIN Without(q, P) : Without(q, P)[n] = q[f[n]]
               /\ q # <<>> /\ 1 \notin P =>
                    Without(q, P) # <<>> /\ Head(Without(q, P)) = Head(q)
               /\ q = <<>> => Without(q, P) = <<>>
      BY <1>2, <1>4, Zenon
    <2>1. QED
      BY WithoutFacts
  <1> HIDE DEF r, w
  <1>7. \A n \in DOMAIN r : r[n] # Opening
    <2>1. PICK f \in [DOMAIN r -> DOMAIN reading[now] \ R] :
                 \A n \in DOMAIN r : r[n] = reading[now][f[n]]
      BY <1>5
    <2>2. QED
      BY <2>1
  <1>8. (\A n \in DOMAIN w : w[n].task # Opening) /\ Part(w, writing[now])
    <2>1. PICK f \in [DOMAIN w -> DOMAIN writing[now] \ W] :
                 /\ \A m, n \in DOMAIN w : m < n => f[m] < f[n]
                 /\ \A n \in DOMAIN w : w[n] = writing[now][f[n]]
      BY <1>6
    <2>2. f \in [DOMAIN w -> DOMAIN writing[now]]
      BY <2>1
    <2>3. QED
      BY <2>1, <2>2 DEF Part
  <1>9. reading[now] # <<>> /\ Head(reading[now]) # Opening => 1 \notin R
    BY <1>2, TailIsPart
  <1>10. writing[now] # <<>> /\ Head(writing[now]).task # Opening => 1 \notin W
    BY <1>2, TailIsPart
  <1>11. reading'[now] = r /\ writing'[now] = w
    BY <1>1
  <1> HIDE DEF R, W
  <1>12. reading' \in [Instances -> Seq(Tasks)] /\ writing' \in [Instances -> Seq(Reads)]
    BY <1>1, <1>5, <1>6
  <1>13. \A j \in Instances \ {now} : reading'[j] = reading[j] /\ writing'[j] = writing[j]
    BY <1>1
  <1>14. QED
    BY <1>5, <1>6, <1>7, <1>8, <1>9, <1>10, <1>11, <1>12, <1>13

DashboardStates == [is : {"gone", "unsaved", "saved"}, saved : Stamps, gone : Stamps]

LEMMA ChangeIsTyped ==
  ASSUME RecorderTypeOK, NEW k \in Keys, NEW dashboard \in DashboardStates,
         Change(k, dashboard)
  PROVE  live' \in [Keys -> DashboardStates] /\ clock' \in Stamps
  BY DEF Change, RecorderTypeOK, Stamps, DashboardStates

(* A change is a save, a creation or a deletion of one dashboard.          *)
LEMMA ChangingFacts ==
  ASSUME RecorderTypeOK, Changing
  PROVE  \E k \in Keys, dashboard \in DashboardStates :
           /\ Change(k, dashboard)
           /\ \/ /\ dashboard.is = "gone" /\ dashboard.gone = clock + 1
                 /\ dashboard.saved = live[k].saved
              \/ /\ dashboard.is = "unsaved" /\ dashboard.gone = live[k].gone
                 /\ dashboard.saved = live[k].saved
              \/ /\ dashboard.is = "saved" /\ dashboard.gone = live[k].gone
                 /\ dashboard.saved = clock + 1
  <1>1. \A k \in Keys : live[k] \in DashboardStates
    BY DEF RecorderTypeOK, DashboardStates
  <1>2. PICK k \in Keys : Save(k) \/ Create(k) \/ Delete(k) \/ EditOutside(k)
    BY DEF Changing
  <1>3. clock + 1 \in Stamps
    <2>1. clock < MaxClock
      BY <1>2, Zenon DEF Save, Create, Delete, EditOutside, Change
    <2>2. clock \in 0 .. MaxClock /\ MaxClock \in Nat
      BY ClockAssumption DEF RecorderTypeOK, Stamps
    <2>3. QED
      BY <2>1, <2>2 DEF Stamps
  <1> DEFINE saved   == [live[k] EXCEPT !.is = "saved", !.saved = clock + 1]
             deleted == [live[k] EXCEPT !.is = "gone", !.gone = clock + 1]
             created == [live[k] EXCEPT !.is = "unsaved"]
  <1>4. /\ saved \in DashboardStates /\ saved.is = "saved"
        /\ saved.gone = live[k].gone /\ saved.saved = clock + 1
    BY <1>1, <1>3 DEF DashboardStates
  <1>5. /\ deleted \in DashboardStates /\ deleted.is = "gone"
        /\ deleted.gone = clock + 1 /\ deleted.saved = live[k].saved
    BY <1>1, <1>3 DEF DashboardStates
  <1>6. /\ created \in DashboardStates /\ created.is = "unsaved"
        /\ created.gone = live[k].gone /\ created.saved = live[k].saved
    BY <1>1 DEF DashboardStates
  <1>7. Change(k, saved) \/ Change(k, deleted) \/ Change(k, created)
    BY <1>2 DEF Save, Create, Delete, EditOutside
  <1> HIDE DEF saved, deleted, created
  <1>8. QED
    BY <1>4, <1>5, <1>6, <1>7

LEMMA ChangingIsTyped ==
  ASSUME RecorderTypeOK, Changing
  PROVE  RecorderTypeOK'
  <1>1. live' \in [Keys -> DashboardStates] /\ clock' \in Stamps
    BY ChangingFacts, ChangeIsTyped
  <1>2. /\ reading' \in [Instances -> Seq(Tasks)]
        /\ \A i \in Instances : walk[i].active => reading'[i] # <<>>
    <2>1. CASE UNCHANGED reading
      BY <2>1 DEF RecorderTypeOK
    <2>2. CASE \E k \in Keys : Capture(k)
      <3>1. PICK k \in Keys : Capture(k)
        BY <2>2
      <3>2. QED
        BY <3>1, CaptureFacts DEF RecorderTypeOK, Tasks
    <2>3. QED
      BY <2>1, <2>2 DEF Changing, Save, Create, Delete, EditOutside, Heard, PanelMoved, queues
  <1>3. /\ pending' \in BOOLEAN /\ behind' \subseteq {"failed", "unheard"}
        /\ UNCHANGED <<head, phase, now, opened, armed, walk, writing, turn, loose,
                       forgetting, overlapped>>
    BY DEF Changing, Save, Create, Delete, EditOutside, PanelMoved, entry, queues, RecorderTypeOK
  <1>4. QED
    BY <1>1, <1>2, <1>3 DEF RecorderTypeOK, DashboardStates

LEMMA StartingIsTyped ==
  ASSUME RecorderTypeOK, OneOpening, Setup \/ OpeningPass \/ ReconcileDue \/ Unload \/ Restart
  PROVE  RecorderTypeOK'
  <1>1. CASE Setup
    <2>1. overlapped' \in BOOLEAN
      BY <1>1 DEF Setup, RecorderTypeOK
    <2>2. QED
      BY <1>1, <2>1 DEF Setup, RecorderTypeOK, harness, queues
  <1>2. CASE OpeningPass
    BY <1>2, CaptureFacts DEF OpeningPass, harness, RecorderTypeOK, Tasks, Passes
  <1>3. CASE ReconcileDue
    BY <1>3, CaptureFacts DEF ReconcileDue, harness, RecorderTypeOK, Tasks, Passes
  <1>4. CASE Unload
    <2> DEFINE reads  == reading[now] # <<>> /\ Head(reading[now]) = Opening
               writes == writing[now] # <<>> /\ Head(writing[now]).task = Opening
    <2>1. /\ reading' \in [Instances -> Seq(Tasks)] /\ writing' \in [Instances -> Seq(Reads)]
          /\ \A j \in Instances \ {now} : reading'[j] = reading[j] /\ writing'[j] = writing[j]
          /\ reading[now] # <<>> /\ ~reads => reading'[now] # <<>>
          /\ writing[now] # <<>> /\ ~writes => writing'[now] # <<>>
      BY <1>4, UnloadFacts DEF OneOpening, RecorderTypeOK
    <2>2. /\ walk' = IF reads THEN [walk EXCEPT ![now] = NoWalk] ELSE walk
          /\ turn' = IF writes THEN [turn EXCEPT ![now] = NoTurn] ELSE turn
          /\ \/ loose' = loose
             \/ /\ writes
                /\ \E job \in JobsOf(turn[now], Head(writing[now]).configs) :
                     loose' = loose \cup {job}
      BY <1>4 DEF Unload, Released
    <2>3. /\ walk' \in [Instances -> [active : BOOLEAN, seen : SUBSET Keys,
                               size : 0 .. Cardinality(Keys), configs : [Keys -> Stamps]]]
          /\ turn' \in [Instances -> [active : BOOLEAN, deletions : SUBSET Keys,
                               writes : SUBSET Keys]]
      BY <2>2, NothingIsTyped DEF RecorderTypeOK
    <2>4. /\ \A i \in Instances : walk'[i].active => reading'[i] # <<>>
          /\ \A i \in Instances : turn'[i].active => writing'[i] # <<>>
      BY <2>1, <2>2, NothingIsTyped DEF RecorderTypeOK
    <2>5. loose' \subseteq [key : Keys, deletes : BOOLEAN, at : Stamps]
      <3>1. writes => Head(writing[now]) \in Reads
        BY HeadTailProperties DEF RecorderTypeOK
      <3>2. writes => \A job \in JobsOf(turn[now], Head(writing[now]).configs) :
                        job \in [key : Keys, deletes : BOOLEAN, at : Stamps]
        <4>1. turn[now].deletions \subseteq Keys /\ turn[now].writes \subseteq Keys /\ 0 \in Stamps
          BY DEF RecorderTypeOK, Stamps
        <4>2. writes => Head(writing[now]).configs \in [Keys -> Stamps]
          BY <3>1 DEF Reads
        <4> DEFINE configs == Head(writing[now]).configs
        <4>3. ASSUME NEW k \in turn[now].deletions
              PROVE  [key |-> k, deletes |-> TRUE, at |-> 0]
                       \in [key : Keys, deletes : BOOLEAN, at : Stamps]
          BY <4>1
        <4>4. ASSUME writes, NEW k \in turn[now].writes
              PROVE  [key |-> k, deletes |-> FALSE, at |-> configs[k]]
                       \in [key : Keys, deletes : BOOLEAN, at : Stamps]
          BY <4>1, <4>2, <4>4
        <4> HIDE DEF writes, configs
        <4>5. writes => \A job \in JobsOf(turn[now], configs) :
                          job \in [key : Keys, deletes : BOOLEAN, at : Stamps]
          <5>1. SUFFICES ASSUME writes, NEW job \in JobsOf(turn[now], configs)
                         PROVE  job \in [key : Keys, deletes : BOOLEAN, at : Stamps]
            OBVIOUS
          <5>2. \/ \E k \in turn[now].deletions : job = [key |-> k, deletes |-> TRUE, at |-> 0]
                \/ \E k \in turn[now].writes :
                     job = [key |-> k, deletes |-> FALSE, at |-> configs[k]]
            BY <5>1, Zenon DEF JobsOf
          <5>3. CASE \E k \in turn[now].deletions :
                       job = [key |-> k, deletes |-> TRUE, at |-> 0]
            BY <4>3, <5>3, Zenon
          <5>4. CASE \E k \in turn[now].writes :
                       job = [key |-> k, deletes |-> FALSE, at |-> configs[k]]
            BY <4>4, <5>1, <5>4, Zenon
          <5>5. QED
            BY <5>2, <5>3, <5>4
        <4>6. QED
          BY <4>5 DEF configs
      <3>3. QED
        BY <2>2, <3>2 DEF RecorderTypeOK
    <2>6. /\ now' \in Instances /\ phase' = "unloaded" /\ opened' = FALSE /\ armed' = FALSE
          /\ pending' = FALSE /\ overlapped' \in BOOLEAN
          /\ UNCHANGED <<live, clock, head, forgetting, behind>>
      BY <1>4 DEF Unload, harness, RecorderTypeOK
    <2>7. QED
      BY <2>1, <2>3, <2>4, <2>5, <2>6 DEF RecorderTypeOK
  <1>5. CASE Restart
    <2>1. <<>> \in Seq(Tasks) /\ <<>> \in Seq(Reads) /\ 1 \in Instances
      BY DEF Instances
    <2>2. /\ reading' \in [Instances -> Seq(Tasks)] /\ writing' \in [Instances -> Seq(Reads)]
          /\ now' \in Instances
      BY <1>5, <2>1 DEF Restart
    <2>3. QED
      BY <1>5, <2>2, NothingIsTyped DEF Restart, harness, RecorderTypeOK
  <1>6. QED
    BY <1>1, <1>2, <1>3, <1>4, <1>5

LEMMA ReadingIsTyped ==
  ASSUME RecorderTypeOK, NEW i \in Instances,
         BeginRead(i) \/ (\E k \in Keys : Load(i, k)) \/ ReadBreaks(i)
  PROVE  RecorderTypeOK'
  <1>1. CASE BeginRead(i)
    <2>1. /\ behind' \subseteq {"failed", "unheard"}
          /\ UNCHANGED <<live, clock, head, phase, now, opened, armed, pending, turn, loose,
                         forgetting, overlapped>>
      BY <1>1 DEF BeginRead, harness, entry, RecorderTypeOK
    <2>2. CASE Present = {}
      <3>1. HandOver(i, NoWalk.configs) /\ NoWalk.configs \in [Keys -> Stamps]
        BY <1>1, <2>2, NothingIsTyped DEF BeginRead
      <3>2. QED
        BY <1>1, <2>1, <3>1, HandOverIsTyped DEF BeginRead, RecorderTypeOK
    <2>3. CASE Present # {}
      <3> DEFINE new == [NoWalk EXCEPT !.active = TRUE, !.size = Cardinality(Present)]
      <3>1. new \in [active : BOOLEAN, seen : SUBSET Keys, size : 0 .. Cardinality(Keys),
                     configs : [Keys -> Stamps]]
        BY NothingIsTyped, PresentFacts
      <3>2. walk' = [walk EXCEPT ![i] = new] /\ UNCHANGED <<reading, writing>>
            /\ reading[i] # <<>>
        BY <1>1, <2>3 DEF BeginRead
      <3> HIDE DEF new
      <3>3. QED
        BY <2>1, <3>1, <3>2 DEF RecorderTypeOK
    <2>4. QED
      BY <2>2, <2>3
  <1>2. CASE \E k \in Keys : Load(i, k)
    <2>1. PICK k \in Keys : Load(i, k)
      BY <1>2
    <2>2. PICK fails \in {FALSE, TRUE} :
         LET seen    == walk[i].seen \cup {k}
             configs == [walk[i].configs EXCEPT ![k] =
                           IF live[k].is = "saved" /\ ~fails THEN live[k].saved ELSE 0]
         IN  /\ behind' = IF fails THEN behind \cup {"failed"} ELSE behind
             /\ IF Present \subseteq seen
                THEN HandOver(i, configs)
                ELSE /\ walk' = [walk EXCEPT ![i].seen = seen, ![i].configs = configs]
                     /\ UNCHANGED <<reading, writing>>
      BY <2>1 DEF Load
    <2> DEFINE seen    == walk[i].seen \cup {k}
               configs == [walk[i].configs EXCEPT ![k] =
                             IF live[k].is = "saved" /\ ~fails THEN live[k].saved ELSE 0]
    <2>3. seen \in SUBSET Keys /\ configs \in [Keys -> Stamps]
      <3>1. /\ walk[i] \in [active : BOOLEAN, seen : SUBSET Keys, size : 0 .. Cardinality(Keys),
                            configs : [Keys -> Stamps]]
            /\ live[k] \in DashboardStates
        BY DEF RecorderTypeOK, DashboardStates
      <3> DEFINE loaded == IF live[k].is = "saved" /\ ~fails THEN live[k].saved ELSE 0
      <3>2. loaded \in Stamps
        BY <3>1 DEF Stamps, DashboardStates
      <3> HIDE DEF loaded
      <3>3. [walk[i].configs EXCEPT ![k] = loaded] \in [Keys -> Stamps]
        BY <3>1, <3>2
      <3>4. QED
        BY <3>1, <3>3 DEF loaded
    <2>4. /\ behind' \subseteq {"failed", "unheard"} /\ reading[i] # <<>>
          /\ UNCHANGED <<live, clock, head, phase, now, opened, armed, pending, turn, loose,
                         forgetting, overlapped>>
      BY <2>1, <2>2 DEF Load, harness, entry, RecorderTypeOK
    <2>5. /\ Present \subseteq seen => HandOver(i, configs)
          /\ ~(Present \subseteq seen) =>
               /\ walk' = [walk EXCEPT ![i].seen = seen, ![i].configs = configs]
               /\ UNCHANGED <<reading, writing>>
      BY <2>2
    <2> HIDE DEF seen, configs
    <2>6. CASE Present \subseteq seen
      BY <2>3, <2>4, <2>5, <2>6, HandOverIsTyped DEF RecorderTypeOK
    <2>7. CASE ~(Present \subseteq seen)
      <3> DEFINE new == [walk[i] EXCEPT !.seen = seen, !.configs = configs]
      <3>1. walk[i] \in [active : BOOLEAN, seen : SUBSET Keys, size : 0 .. Cardinality(Keys),
                         configs : [Keys -> Stamps]]
        BY DEF RecorderTypeOK
      <3>2. new \in [active : BOOLEAN, seen : SUBSET Keys, size : 0 .. Cardinality(Keys),
                     configs : [Keys -> Stamps]] /\ new.active = walk[i].active
        BY <2>3, <3>1
      <3>3. walk' = [walk EXCEPT ![i] = new] /\ UNCHANGED <<reading, writing>>
        BY <2>5, <2>7 DEF RecorderTypeOK
      <3> HIDE DEF new
      <3>4. QED
        BY <2>4, <3>2, <3>3 DEF RecorderTypeOK
    <2>8. QED
      BY <2>6, <2>7
  <1>3. CASE ReadBreaks(i)
    <2>1. reading[i] \in Seq(Tasks) /\ reading[i] # <<>>
      BY <1>3 DEF ReadBreaks, RecorderTypeOK
    <2>2. Tail(reading[i]) \in Seq(Tasks)
      BY <2>1, TailIsPart
    <2>3. armed' \in BOOLEAN
      BY <1>3 DEF ReadBreaks, ArmAfter, RecorderTypeOK
    <2>4. QED
      BY <1>3, <2>2, <2>3, NothingIsTyped DEF ReadBreaks, harness, RecorderTypeOK
  <1>4. QED
    BY <1>1, <1>2, <1>3

LEMMA HeadIsTyped ==
  ASSUME RecorderTypeOK, NEW k \in Keys, NEW at \in Stamps,
         RecordDeletion(k) \/ RecordState(k, at) \/ UNCHANGED head
  PROVE  head' \in [Keys -> [at : Stamps, is : {"never", "saved", "deleted", "forgotten"}]]
  <1>1. head \in [Keys -> [at : Stamps, is : {"never", "saved", "deleted", "forgotten"}]]
    BY DEF RecorderTypeOK
  <1>2. CASE RecordDeletion(k)
    <2> DEFINE new == [head[k] EXCEPT !.is = IF @ = "saved" THEN "deleted" ELSE @]
    <2>1. new \in [at : Stamps, is : {"never", "saved", "deleted", "forgotten"}]
      BY <1>1
    <2>2. head' = [head EXCEPT ![k] = new]
      BY <1>1, <1>2 DEF RecordDeletion
    <2> HIDE DEF new
    <2>3. QED
      BY <1>1, <2>1, <2>2
  <1>3. CASE RecordState(k, at)
    BY <1>1, <1>3 DEF RecordState
  <1>4. QED
    BY <1>1, <1>2, <1>3

LEMMA WritingIsTyped ==
  ASSUME RecorderTypeOK, NEW i \in Instances,
         BeginWrite(i) \/ (\E k \in Keys : MarkDeleted(i, k) \/ WriteOne(i, k)) \/ EndWrite(i)
  PROVE  RecorderTypeOK'
  <1>1. writing[i] # <<>> => Head(writing[i]) \in Reads
    BY HeadTailProperties DEF RecorderTypeOK
  <1>2. CASE BeginWrite(i)
    <2>1. /\ behind' \subseteq {"failed", "unheard"} /\ writing[i] # <<>>
          /\ \E new \in [active : BOOLEAN, deletions : SUBSET Keys, writes : SUBSET Keys] :
               turn' = [turn EXCEPT ![i] = new]
          /\ UNCHANGED <<live, clock, head, phase, now, opened, armed, pending, reading, walk,
                         writing, loose, forgetting, overlapped>>
      <3>1. PICK listed \in BOOLEAN :
              LET t == Head(writing[i]) IN
              /\ turn' = [turn EXCEPT ![i] =
                       [NoTurn EXCEPT !.active = TRUE, !.writes = Entered(t),
                          !.deletions = IF listed THEN DeletionsToRecord(t) ELSE {}]]
              /\ behind' = IF listed THEN behind ELSE behind \cup {"failed"}
        BY <1>2 DEF BeginWrite
      <3> DEFINE t == Head(writing[i])
                 d == IF listed THEN DeletionsToRecord(t) ELSE {}
      <3>2. d \in SUBSET Keys /\ Entered(t) \in SUBSET Keys
        BY DEF DeletionsToRecord, Entered
      <3> DEFINE new == [NoTurn EXCEPT !.active = TRUE, !.writes = Entered(t), !.deletions = d]
      <3>3. /\ turn' = [turn EXCEPT ![i] = new]
            /\ new \in [active : BOOLEAN, deletions : SUBSET Keys, writes : SUBSET Keys]
        BY <3>1, <3>2, NothingIsTyped
      <3>4. behind' \subseteq {"failed", "unheard"}
        BY <3>1 DEF RecorderTypeOK
      <3> HIDE DEF new
      <3>5. QED
        BY <1>2, <3>2, <3>3, <3>4 DEF BeginWrite, harness, entry
    <2>2. QED
      BY <2>1 DEF RecorderTypeOK
  <1>3. ASSUME NEW k \in Keys, MarkDeleted(i, k) PROVE RecorderTypeOK'
    <2>1. head' \in [Keys -> [at : Stamps, is : {"never", "saved", "deleted", "forgotten"}]]
      BY <1>3, HeadIsTyped DEF MarkDeleted, Stamps
    <2>2. QED
      <3> DEFINE new == [turn[i] EXCEPT !.deletions = @ \ {k}]
      <3>1. turn[i] \in [active : BOOLEAN, deletions : SUBSET Keys, writes : SUBSET Keys]
        BY DEF RecorderTypeOK
      <3>2. new \in [active : BOOLEAN, deletions : SUBSET Keys, writes : SUBSET Keys]
            /\ new.active = turn[i].active
        BY <3>1
      <3>3. turn' = [turn EXCEPT ![i] = new]
        BY <1>3 DEF MarkDeleted, RecorderTypeOK
      <3>4. behind' \subseteq {"failed", "unheard"}
        BY <1>3 DEF MarkDeleted, RecorderTypeOK
      <3> HIDE DEF new
      <3>5. QED
        <4>1. UNCHANGED <<live, clock, phase, now, opened, armed, pending, reading, walk,
                          writing, loose, forgetting, overlapped>>
          BY <1>3 DEF MarkDeleted, harness, entry
        <4>2. QED
          BY <2>1, <3>2, <3>3, <3>4, <4>1 DEF RecorderTypeOK
  <1>4. ASSUME NEW k \in Keys, WriteOne(i, k) PROVE RecorderTypeOK'
    <2>1. Head(writing[i]).configs[k] \in Stamps
      BY <1>1, <1>4 DEF WriteOne, RecorderTypeOK, Reads
    <2>2. head' \in [Keys -> [at : Stamps, is : {"never", "saved", "deleted", "forgotten"}]]
      BY <1>4, <2>1, HeadIsTyped DEF WriteOne
    <2>3. QED
      <3> DEFINE new == [turn[i] EXCEPT !.writes = @ \ {k}]
      <3>1. turn[i] \in [active : BOOLEAN, deletions : SUBSET Keys, writes : SUBSET Keys]
        BY DEF RecorderTypeOK
      <3>2. new \in [active : BOOLEAN, deletions : SUBSET Keys, writes : SUBSET Keys]
            /\ new.active = turn[i].active
        BY <3>1
      <3>3. turn' = [turn EXCEPT ![i] = new]
        BY <1>4 DEF WriteOne, RecorderTypeOK
      <3>4. behind' \subseteq {"failed", "unheard"}
        BY <1>4 DEF WriteOne, RecorderTypeOK
      <3> HIDE DEF new
      <3>5. QED
        <4>1. UNCHANGED <<live, clock, phase, now, opened, armed, pending, reading, walk,
                          writing, loose, forgetting, overlapped>>
          BY <1>4 DEF WriteOne, harness, entry
        <4>2. QED
          BY <2>2, <3>2, <3>3, <3>4, <4>1 DEF RecorderTypeOK
  <1>5. CASE EndWrite(i)
    <2>1. writing[i] \in Seq(Reads) /\ writing[i] # <<>>
      BY <1>5 DEF EndWrite, RecorderTypeOK
    <2>2. Tail(writing[i]) \in Seq(Reads)
      BY <2>1, TailIsPart
    <2>3. armed' \in BOOLEAN
      BY <1>5 DEF EndWrite, ArmAfter, RecorderTypeOK
    <2>4. QED
      BY <1>5, <2>2, <2>3, NothingIsTyped, SMTT(30) DEF EndWrite, harness, RecorderTypeOK
  <1>6. QED
    BY <1>2, <1>3, <1>4, <1>5

LEMMA RestIsTyped ==
  ASSUME RecorderTypeOK,
         (\E job \in loose : LooseJob(job)) \/ Forget \/ (\E k \in Keys : ConfirmForget(k))
  PROVE  RecorderTypeOK'
  <1>1. ASSUME NEW job \in loose, LooseJob(job) PROVE RecorderTypeOK'
    <2>1. job.key \in Keys /\ job.at \in Stamps
      BY DEF RecorderTypeOK
    <2>2. head' \in [Keys -> [at : Stamps, is : {"never", "saved", "deleted", "forgotten"}]]
      BY <1>1, <2>1, HeadIsTyped DEF LooseJob
    <2>3. QED
      BY <1>1, <2>2 DEF LooseJob, harness, entry, queues, RecorderTypeOK
  <1>2. CASE Forget
    BY <1>2 DEF Forget, harness, entry, queues, RecorderTypeOK
  <1>3. ASSUME NEW k \in Keys, ConfirmForget(k) PROVE RecorderTypeOK'
    BY <1>3 DEF ConfirmForget, harness, entry, queues, RecorderTypeOK
  <1>4. QED
    BY <1>1, <1>2, <1>3

--------------------------------------------------------------------------------
(* What the steps of the invariant rest on                                 *)

LEMMA MomentsAreNaturals ==
  ASSUME RecorderTypeOK
  PROVE  /\ clock \in Nat
         /\ \A k \in Keys :
              live[k].saved \in Nat /\ live[k].gone \in Nat /\ head[k].at \in Nat
         /\ \A i \in Instances, k \in Keys :
              /\ walk[i].configs[k] \in Nat
              /\ \A n \in DOMAIN writing[i] : writing[i][n].configs[k] \in Nat
  <1>1. \A s \in Stamps : s \in Nat
    BY DEF Stamps
  <1>2. \A i \in Instances : \A n \in DOMAIN writing[i] : writing[i][n] \in Reads
    BY ElementOfSeq DEF RecorderTypeOK
  <1>3. \A i \in Instances, k \in Keys : \A n \in DOMAIN writing[i] :
          writing[i][n].configs[k] \in Nat
    BY <1>1, <1>2 DEF Reads
  <1>4. clock \in Nat /\ \A k \in Keys : live[k].saved \in Nat /\ live[k].gone \in Nat
    BY <1>1 DEF RecorderTypeOK
  <1>5. \A k \in Keys : head[k].at \in Nat
    BY <1>1 DEF RecorderTypeOK
  <1>6. \A i \in Instances, k \in Keys : walk[i].configs[k] \in Nat
    BY <1>1 DEF RecorderTypeOK
  <1>7. QED
    BY <1>3, <1>4, <1>5, <1>6

(* Dashboards that change disturb nothing that was read or written.        *)
LEMMA GrowthKeeps ==
  ASSUME RecorderTypeOK, RecorderTypeOK', HeadOK, LooseOK, ReadsOK, TurnsOK, QueuesOK,
         \A k \in Keys : live[k].saved <= live'[k].saved /\ live[k].gone <= live'[k].gone,
         UNCHANGED <<head, walk, writing, turn, loose>>
  PROVE  /\ (HeadOK /\ LooseOK /\ ReadsOK /\ TurnsOK /\ QueuesOK)'
         /\ NotBehind => NotBehind'
  <1>1. /\ \A k \in Keys :
             /\ live[k].saved \in Nat /\ live[k].gone \in Nat /\ head[k].at \in Nat
             /\ live'[k].saved \in Nat /\ live'[k].gone \in Nat
        /\ \A i \in Instances, k \in Keys :
             /\ walk[i].configs[k] \in Nat
             /\ \A n \in DOMAIN writing[i] : writing[i][n].configs[k] \in Nat
    <2>1. \A s \in Stamps : s \in Nat
      BY DEF Stamps
    <2>2. \A k \in Keys : live'[k].saved \in Nat /\ live'[k].gone \in Nat
      BY <2>1 DEF RecorderTypeOK
    <2>3. QED
      BY <2>2, MomentsAreNaturals
  <1>2. HeadOK'
    BY <1>1 DEF HeadOK
  <1>3. LooseOK'
    <2>1. \A job \in loose : job.key \in Keys /\ job.at \in Nat
      <3>1. \A s \in Stamps : s \in Nat
        BY DEF Stamps
      <3>2. loose \subseteq [key : Keys, deletes : BOOLEAN, at : Stamps]
        BY DEF RecorderTypeOK
      <3>3. QED
        BY <3>1, <3>2
    <2>2. QED
      BY <1>1, <2>1 DEF LooseOK
  <1>4. ReadsOK'
    BY <1>1 DEF ReadsOK, Read
  <1>5. TurnsOK'
    BY DEF TurnsOK, Entered
  <1>6. QueuesOK'
    BY <1>1 DEF QueuesOK, Sorted, GoneSince
  <1>7. NotBehind => NotBehind'
    <2>1. ASSUME NEW i \in Instances, walk[i].active => Ahead(walk[i].configs)
          PROVE  walk'[i].active => Ahead(walk[i].configs)'
      BY <2>1 DEF Ahead
    <2>2. ASSUME NEW i \in Instances, NEW n \in DOMAIN writing[i],
                 Ahead(writing[i][n].configs), DeletedSince(writing[i][n].known)
          PROVE  Ahead(writing[i][n].configs)' /\ DeletedSince(writing[i][n].known)'
      BY <1>1, <2>2 DEF Ahead, DeletedSince
    <2>3. QED
      BY <2>1, <2>2 DEF NotBehind
  <1>8. QED
    BY <1>2, <1>3, <1>4, <1>5, <1>6, <1>7

(* A part of a queue keeps what the queue keeps.                           *)
LEMMA PartKeeps ==
  ASSUME RecorderTypeOK, NEW i \in Instances, ReadsOK, QueuesOK,
         DOMAIN writing'[i] \in SUBSET Nat, Part(writing'[i], writing[i]),
         UNCHANGED <<live, head>>
  PROVE  /\ Sorted(writing[i])' /\ GoneSince(writing[i])'
         /\ \A n \in DOMAIN writing'[i] : \E m \in DOMAIN writing[i] :
              writing'[i][n] = writing[i][m]
  <1>1. PICK f \in [DOMAIN writing'[i] -> DOMAIN writing[i]] :
           /\ \A m, n \in DOMAIN writing'[i] : m < n => f[m] < f[n]
           /\ \A n \in DOMAIN writing'[i] : writing'[i][n] = writing[i][f[n]]
    BY DEF Part
  <1>2. DOMAIN writing[i] \in SUBSET Nat
    BY LenProperties DEF RecorderTypeOK
  <1>3. \A m, n \in DOMAIN writing'[i] : m <= n => f[m] <= f[n]
    BY <1>1, <1>2
  <1>4. Sorted(writing[i])'
    BY <1>1 DEF QueuesOK, Sorted
  <1>5. GoneSince(writing[i])'
    BY <1>1, <1>3 DEF QueuesOK, GoneSince
  <1>6. QED
    BY <1>1, <1>4, <1>5

--------------------------------------------------------------------------------
(* The steps                                                               *)

(* A capture of a dashboard, or the only opening pass, joins a queue.      *)
LEMMA CaptureKeeps ==
  ASSUME RecorderInv, NEW task \in Tasks, Capture(task), phase = "open", phase' = "open",
         now' = now, opened' \in BOOLEAN, UNCHANGED <<writing, loose>>,
         task = Opening => ~opened /\ opened', task # Opening => opened' = opened,
         armed' \/ pending' => phase' = "open"
  PROVE  OneOpening' /\ OpeningsOK' /\ (Alone => Alone')
  <1>1. /\ \A i \in Instances \ {now} : reading'[i] = reading[i]
        /\ Len(reading[now]) \in Nat /\ DOMAIN reading[now] = 1 .. Len(reading[now])
        /\ DOMAIN reading'[now] = 1 .. Len(reading[now]) + 1
        /\ \A n \in DOMAIN reading[now] : reading'[now][n] = reading[now][n]
        /\ reading'[now][Len(reading[now]) + 1] = task
    BY CaptureFacts DEF RecorderInv
  <1>2. now \in Instances
    BY DEF RecorderInv, RecorderTypeOK
  <1>3. task = Opening =>
          /\ \A n \in DOMAIN reading[now] : reading[now][n] # Opening
          /\ \A n \in DOMAIN writing[now] : writing[now][n].task # Opening
    <2>1. /\ \A n \in DOMAIN reading[now] : reading[now][n] = Opening => opened
          /\ \A n \in DOMAIN writing[now] : writing[now][n].task = Opening => opened
      BY <1>2, Zenon DEF RecorderInv, OpeningsOK
    <2>2. QED
      BY <2>1, Zenon
  <1>4. OneOpening'
    <2>1. \A m, n \in DOMAIN reading[now] :
            reading[now][m] = Opening /\ reading[now][n] = Opening => m = n
      BY <1>2 DEF RecorderInv, OneOpening
    <2>2. \A m, n \in DOMAIN reading'[now] :
            reading'[now][m] = Opening /\ reading'[now][n] = Opening => m = n
      <3>1. \A m \in DOMAIN reading'[now] :
              \/ m = Len(reading[now]) + 1
              \/ m \in DOMAIN reading[now] /\ reading'[now][m] = reading[now][m]
        BY <1>1
      <3>2. CASE task = Opening
        BY <1>1, <1>3, <2>1, <3>1, <3>2
      <3>3. CASE task # Opening
        BY <1>1, <2>1, <3>1, <3>3
      <3>4. QED
        BY <3>2, <3>3
    <2>3. QED
      BY <1>1, <2>2 DEF RecorderInv, OneOpening
  <1>5. OpeningsOK'
    BY <1>1, <1>2, <1>3 DEF RecorderInv, OpeningsOK
  <1>6. Alone => Alone'
    BY <1>1, <1>2 DEF Alone, Idle
  <1>7. QED
    BY <1>4, <1>5, <1>6

(* A step that leaves the queues alone leaves alone who works.             *)
LEMMA QuietKeeps ==
  ASSUME RecorderInv, UNCHANGED <<reading, writing, phase, now, opened, armed, pending, loose>>
  PROVE  OneOpening' /\ OpeningsOK' /\ (Alone => Alone')
  <1>1. OneOpening' /\ OpeningsOK'
    BY DEF RecorderInv, OneOpening, OpeningsOK
  <1>2. Alone => Alone'
    BY DEF Alone, Idle
  <1>3. QED
    BY <1>1, <1>2

LEMMA ChangingStep ==
  ASSUME RecorderInv, Changing
  PROVE  RecorderInv'
  <1>1. RecorderTypeOK /\ RecorderTypeOK'
    BY ChangingIsTyped DEF RecorderInv
  <1>2. PICK k \in Keys, dashboard \in DashboardStates :
           /\ Change(k, dashboard)
           /\ \/ /\ dashboard.is = "gone" /\ dashboard.gone = clock + 1
                 /\ dashboard.saved = live[k].saved
              \/ /\ dashboard.is = "unsaved" /\ dashboard.gone = live[k].gone
                 /\ dashboard.saved = live[k].saved
              \/ /\ dashboard.is = "saved" /\ dashboard.gone = live[k].gone
                 /\ dashboard.saved = clock + 1
    BY ChangingFacts DEF RecorderInv
  <1>3. /\ clock \in Nat /\ clock' = clock + 1
        /\ live' = [live EXCEPT ![k] = dashboard]
        /\ \A d \in Keys : live[d].saved \in Nat /\ live[d].gone \in Nat
        /\ \A d \in Keys : live[d].saved <= clock /\ live[d].gone <= clock
    BY <1>1, <1>2, MomentsAreNaturals DEF Change, RecorderInv, MomentsOK
  <1>4. \A d \in Keys \ {k} : live'[d] = live[d]
    BY <1>1, <1>3 DEF RecorderTypeOK
  <1>5. live'[k] = dashboard
    BY <1>1, <1>3 DEF RecorderTypeOK
  <1>6. \A d \in Keys : live[d].saved <= live'[d].saved /\ live[d].gone <= live'[d].gone
    BY <1>2, <1>3, <1>4, <1>5
  <1>7. MomentsOK'
    BY <1>2, <1>3, <1>4, <1>5 DEF RecorderInv, MomentsOK
  <1>8. /\ UNCHANGED <<head, phase, now, opened, armed, walk, writing, turn, loose, overlapped>>
        /\ pending' \in {pending, armed}
        /\ \/ UNCHANGED reading /\ pending' \in {pending, armed}
           \/ phase = "open" /\ pending' = pending /\ \E d \in Keys : Capture(d)
    BY DEF Changing, Save, Create, Delete, EditOutside, Heard, PanelMoved, entry, queues
  <1>9. (HeadOK /\ LooseOK /\ ReadsOK /\ TurnsOK /\ QueuesOK)' /\ (NotBehind => NotBehind')
    BY <1>1, <1>6, <1>8, GrowthKeeps DEF RecorderInv
  <1>10. OneOpening' /\ OpeningsOK' /\ (Alone => Alone')
    <2>1. CASE UNCHANGED reading
      <3>1. OneOpening' /\ OpeningsOK'
        BY <1>8, <2>1 DEF RecorderInv, OneOpening, OpeningsOK
      <3>2. Alone => Alone'
        BY <1>8, <2>1 DEF Alone, Idle
      <3>3. QED
        BY <3>1, <3>2
    <2>2. CASE phase = "open" /\ \E d \in Keys : Capture(d)
      <3>1. PICK d \in Keys : Capture(d)
        BY <2>2
      <3>2. d \in Tasks /\ d # Opening /\ opened \in BOOLEAN
        BY <1>1 DEF Tasks, RecorderTypeOK
      <3>3. QED
        BY <1>8, <2>2, <3>1, <3>2, CaptureKeeps
    <2>3. QED
      BY <1>8, <2>1, <2>2
  <1>11. QED
    BY <1>1, <1>7, <1>8, <1>9, <1>10 DEF RecorderInv

LEMMA SetupStep ==
  ASSUME RecorderInv, Setup
  PROVE  RecorderInv'
  <1>1. RecorderTypeOK /\ RecorderTypeOK'
    BY StartingIsTyped DEF RecorderInv
  <1>2. /\ UNCHANGED <<live, clock, head, now, armed, pending, reading, walk, writing, turn, loose>>
        /\ phase # "open" /\ phase' = "open"
    BY DEF Setup, harness, queues
  <1>3. (HeadOK /\ LooseOK /\ ReadsOK /\ TurnsOK /\ QueuesOK)' /\ (NotBehind => NotBehind')
    <2>1. \A k \in Keys : live[k].saved <= live'[k].saved /\ live[k].gone <= live'[k].gone
      BY <1>1, <1>2, MomentsAreNaturals
    <2>2. QED
      BY <1>1, <1>2, <2>1, GrowthKeeps DEF RecorderInv
  <1>4. MomentsOK' /\ OneOpening' /\ OpeningsOK'
    BY <1>2 DEF RecorderInv, MomentsOK, OneOpening, OpeningsOK
  <1>5. ~overlapped' => ~overlapped /\ \A i \in Instances : Idle(i)
    BY <1>1 DEF Setup, RecorderTypeOK
  <1>6. ~overlapped' => Alone'
    BY <1>2, <1>5 DEF RecorderInv, Alone, Idle
  <1>7. QED
    BY <1>1, <1>3, <1>4, <1>5, <1>6 DEF RecorderInv

LEMMA CapturePassStep ==
  ASSUME RecorderInv, OpeningPass \/ ReconcileDue
  PROVE  RecorderInv'
  <1>1. RecorderTypeOK /\ RecorderTypeOK'
    BY StartingIsTyped DEF RecorderInv
  <1>2. /\ UNCHANGED <<live, clock, head, now, phase, armed, walk, writing, turn, loose, overlapped>>
        /\ phase = "open" /\ pending' \in {pending, FALSE}
    BY DEF OpeningPass, ReconcileDue, harness, RecorderInv, OpeningsOK
  <1>3. (HeadOK /\ LooseOK /\ ReadsOK /\ TurnsOK /\ QueuesOK)' /\ (NotBehind => NotBehind')
    <2>1. \A k \in Keys : live[k].saved <= live'[k].saved /\ live[k].gone <= live'[k].gone
      BY <1>1, <1>2, MomentsAreNaturals
    <2>2. QED
      BY <1>1, <1>2, <2>1, GrowthKeeps DEF RecorderInv
  <1>4. MomentsOK'
    BY <1>2 DEF RecorderInv, MomentsOK
  <1>5. OneOpening' /\ OpeningsOK' /\ (Alone => Alone')
    <2>1. CASE OpeningPass
      <3>1. Opening \in Tasks /\ Capture(Opening) /\ ~opened /\ opened'
        BY <2>1 DEF OpeningPass, Tasks, Passes
      <3>2. opened' \in BOOLEAN
        BY <1>1 DEF RecorderTypeOK
      <3>3. QED
        BY <1>2, <3>1, <3>2, CaptureKeeps
    <2>2. CASE ReconcileDue
      <3>1. Reconcile \in Tasks /\ Reconcile # Opening /\ Capture(Reconcile) /\ opened' = opened
        BY <2>2 DEF ReconcileDue, Tasks, Passes
      <3>2. opened' \in BOOLEAN
        BY <1>1 DEF RecorderTypeOK
      <3>3. QED
        BY <1>2, <3>1, <3>2, CaptureKeeps
    <2>3. QED
      BY <2>1, <2>2
  <1>6. QED
    BY <1>1, <1>2, <1>3, <1>4, <1>5 DEF RecorderInv

LEMMA UnloadStep ==
  ASSUME RecorderInv, Unload
  PROVE  RecorderInv'
  <1> DEFINE reads  == reading[now] # <<>> /\ Head(reading[now]) = Opening
             writes == writing[now] # <<>> /\ Head(writing[now]).task = Opening
  <1>1. RecorderTypeOK /\ RecorderTypeOK'
    BY StartingIsTyped DEF RecorderInv
  <1>2. /\ now \in Instances /\ now' = now + 1
        /\ phase = "open" /\ phase' = "unloaded" /\ armed' = FALSE /\ pending' = FALSE
        /\ UNCHANGED <<live, clock, head>>
        /\ walk' = IF reads THEN [walk EXCEPT ![now] = NoWalk] ELSE walk
        /\ turn' = IF writes THEN [turn EXCEPT ![now] = NoTurn] ELSE turn
        /\ \/ loose' = loose
           \/ /\ writes
              /\ \E job \in JobsOf(turn[now], Head(writing[now]).configs) :
                   loose' = loose \cup {job}
        /\ overlapped' = (overlapped \/ loose' # {})
    BY <1>1 DEF Unload, Released, harness, RecorderTypeOK
  <1>3. /\ \A j \in Instances \ {now} : reading'[j] = reading[j] /\ writing'[j] = writing[j]
        /\ Part(writing'[now], writing[now])
        /\ \A n \in DOMAIN reading'[now] : reading'[now][n] # Opening
        /\ \A n \in DOMAIN writing'[now] : writing'[now][n].task # Opening
        /\ reading[now] = <<>> => reading'[now] = <<>>
        /\ writing[now] = <<>> => writing'[now] = <<>>
        /\ writing[now] # <<>> /\ ~writes => Head(writing'[now]) = Head(writing[now])
    BY <1>1, <1>2, UnloadFacts DEF RecorderInv, OneOpening
  <1>4. ASSUME NEW i \in Instances, i = now
        PROVE  /\ Sorted(writing[i])' /\ GoneSince(writing[i])'
               /\ \A n \in DOMAIN writing'[i] : \E m \in DOMAIN writing[i] :
                    writing'[i][n] = writing[i][m]
    <2>1. DOMAIN writing'[i] \in SUBSET Nat
      <3>1. writing'[i] \in Seq(Reads)
        BY <1>1 DEF RecorderTypeOK
      <3>2. QED
        BY <3>1, LenProperties
    <2>2. QED
      BY <1>1, <1>2, <1>3, <1>4, <2>1, PartKeeps DEF RecorderInv
  <1>5. /\ \A i \in Instances : walk'[i] \in {walk[i], NoWalk}
        /\ \A i \in Instances : turn'[i] \in {turn[i], NoTurn}
        /\ writes => turn'[now] = NoTurn
        /\ \A i \in Instances \ {now} : turn'[i] = turn[i]
    BY <1>1, <1>2 DEF RecorderTypeOK
  <1>6. \A i \in Instances : \A n \in DOMAIN writing'[i] : \E m \in DOMAIN writing[i] :
          writing'[i][n] = writing[i][m]
    BY <1>3, <1>4
  <1> HIDE DEF reads, writes
  <1>7. MomentsOK' /\ HeadOK'
    BY <1>2 DEF RecorderInv, MomentsOK, HeadOK
  <1>8. LooseOK'
    <2>1. ASSUME writes, NEW job \in JobsOf(turn[now], Head(writing[now]).configs), ~job.deletes
          PROVE  job.at # 0 /\ job.at <= live[job.key].saved
      <3>1. PICK k \in turn[now].writes :
              job = [key |-> k, deletes |-> FALSE, at |-> Head(writing[now]).configs[k]]
        BY <2>1 DEF JobsOf
      <3>2. writing[now] # <<>> /\ writing[now] \in Seq(Reads)
        BY <1>1, <1>2, <2>1 DEF writes, RecorderTypeOK
      <3>3. Head(writing[now]) = writing[now][1] /\ 1 \in DOMAIN writing[now]
        BY <3>2, TailIsPart
      <3>4. k \in Keys
        BY <1>1, <1>2 DEF RecorderTypeOK
      <3>5. Head(writing[now]).configs[k] <= live[k].saved
        BY <1>2, <3>3, <3>4 DEF RecorderInv, ReadsOK
      <3>6. turn[now].active \/ turn[now].writes = {}
        BY <1>2 DEF RecorderInv, TurnsOK
      <3>7. Head(writing[now]).configs[k] # 0
        BY <1>2, <3>6 DEF RecorderInv, TurnsOK, Entered
      <3>8. QED
        BY <3>1, <3>5, <3>7
    <2>2. QED
      BY <1>2, <2>1 DEF RecorderInv, LooseOK
  <1>9. ReadsOK'
    <2>1. ASSUME NEW i \in Instances PROVE Read(i, walk[i].configs)'
      <3>1. CASE walk'[i] = walk[i]
        BY <1>2, <1>6, <3>1 DEF RecorderInv, ReadsOK, Read
      <3>2. CASE walk'[i] = NoWalk
        BY <1>1, <1>2, <3>2, MomentsAreNaturals DEF NoWalk, Read
      <3>3. QED
        BY <1>5, <3>1, <3>2
    <2>2. ASSUME NEW i \in Instances, NEW n \in DOMAIN writing'[i], NEW k \in Keys
          PROVE  writing'[i][n].configs[k] <= live'[k].saved
      BY <1>2, <1>6 DEF RecorderInv, ReadsOK
    <2>3. QED
      BY <2>1, <2>2 DEF ReadsOK
  <1>10. TurnsOK'
    <2>1. ASSUME NEW i \in Instances, turn'[i].active
          PROVE  turn'[i] = turn[i] /\ Head(writing'[i]) = Head(writing[i])
      <3>1. turn'[i] = turn[i]
        BY <1>5, <2>1, NothingIsTyped
      <3>2. writing[i] # <<>>
        BY <1>1, <2>1, <3>1 DEF RecorderTypeOK
      <3>3. i = now => ~writes
        BY <1>5, <2>1, NothingIsTyped
      <3>4. QED
        BY <1>3, <3>1, <3>2, <3>3
    <2>2. ASSUME NEW i \in Instances, ~turn'[i].active
          PROVE  turn'[i].writes = {}
      BY <1>5, <2>2, NothingIsTyped DEF RecorderInv, TurnsOK
    <2>3. QED
      BY <2>1, <2>2 DEF RecorderInv, TurnsOK, Entered
  <1>11. QueuesOK'
    <2>1. ASSUME NEW i \in Instances \ {now} PROVE Sorted(writing[i])' /\ GoneSince(writing[i])'
      BY <1>2, <1>3 DEF RecorderInv, QueuesOK, Sorted, GoneSince
    <2>2. ASSUME NEW i \in Instances, i = now
          PROVE  Sorted(writing[i])' /\ GoneSince(writing[i])'
      BY <1>4, <2>2
    <2>3. QED
      BY <2>1, <2>2 DEF QueuesOK
  <1>12. OneOpening' /\ OpeningsOK'
    <2>1. \A i \in Instances :
            /\ \A n \in DOMAIN reading'[i] : reading'[i][n] # Opening
            /\ \A n \in DOMAIN writing'[i] : writing'[i][n].task # Opening
      BY <1>3 DEF RecorderInv, OpeningsOK
    <2>2. QED
      BY <1>2, <2>1 DEF OneOpening, OpeningsOK
  <1>13. ~overlapped' => ~overlapped /\ loose' = {}
    BY <1>1, <1>2 DEF RecorderTypeOK
  <1>14. Alone /\ loose' = {} => Alone'
    BY <1>2, <1>3 DEF Alone, Idle
  <1>15. NotBehind => NotBehind'
    <2>1. ASSUME NotBehind, NEW i \in Instances
          PROVE  walk'[i].active => Ahead(walk[i].configs)'
      <3>1. CASE walk'[i] = walk[i]
        BY <1>2, <2>1, <3>1 DEF NotBehind, Ahead
      <3>2. CASE walk'[i] = NoWalk
        BY <3>2, NothingIsTyped
      <3>3. QED
        BY <1>5, <3>1, <3>2
    <2>2. ASSUME NotBehind, NEW i \in Instances, NEW n \in DOMAIN writing'[i]
          PROVE  Ahead(writing[i][n].configs)' /\ DeletedSince(writing[i][n].known)'
      <3>1. PICK m \in DOMAIN writing[i] : writing'[i][n] = writing[i][m]
        BY <1>6
      <3>2. QED
        BY <1>2, <2>2, <3>1 DEF NotBehind, Ahead, DeletedSince
    <2>3. QED
      BY <2>1, <2>2 DEF NotBehind
  <1>16. QED
    BY <1>1, <1>7, <1>8, <1>9, <1>10, <1>11, <1>12, <1>13, <1>14, <1>15 DEF RecorderInv

LEMMA RestartStep ==
  ASSUME RecorderInv, Restart
  PROVE  RecorderInv'
  <1>1. RecorderTypeOK /\ RecorderTypeOK'
    BY StartingIsTyped DEF RecorderInv
  <1>2. /\ UNCHANGED <<live, clock, head>>
        /\ phase' = "down" /\ armed' = FALSE /\ pending' = FALSE /\ loose' = {}
        /\ \A i \in Instances :
             /\ reading'[i] = <<>> /\ writing'[i] = <<>>
             /\ walk'[i] = NoWalk /\ turn'[i] = NoTurn
    BY DEF Restart, harness
  <1>3. MomentsOK' /\ HeadOK' /\ LooseOK'
    BY <1>2 DEF RecorderInv, MomentsOK, HeadOK, LooseOK
  <1>4. ReadsOK'
    <2>1. ASSUME NEW i \in Instances PROVE Read(i, walk[i].configs)'
      BY <1>1, <1>2, MomentsAreNaturals DEF NoWalk, Read
    <2>2. QED
      BY <1>2, <2>1 DEF ReadsOK
  <1>5. TurnsOK' /\ QueuesOK' /\ OneOpening' /\ OpeningsOK'
    BY <1>2, NothingIsTyped DEF TurnsOK, QueuesOK, Sorted, GoneSince, OneOpening, OpeningsOK
  <1>6. Alone' /\ NotBehind'
    BY <1>2, NothingIsTyped DEF Alone, Idle, NotBehind
  <1>7. QED
    BY <1>1, <1>3, <1>4, <1>5, <1>6 DEF RecorderInv

(* A read that is handed over stands at the end of its queue.              *)
LEMMA HandOverKeeps ==
  ASSUME RecorderInv, NEW i \in Instances, reading[i] # <<>>,
         NEW configs \in [Keys -> Stamps], HandOver(i, configs), Read(i, configs),
         UNCHANGED <<live, clock, head, turn, phase, now, opened, armed, pending, loose>>
  PROVE  /\ ReadsOK' /\ TurnsOK' /\ QueuesOK' /\ OneOpening' /\ OpeningsOK'
         /\ Alone => Alone'
         /\ NotBehind /\ Ahead(configs) => NotBehind'
  <1> DEFINE q == writing[i]
  <1>1. RecorderTypeOK
    BY DEF RecorderInv
  <1>2. /\ reading' = [reading EXCEPT ![i] = Tail(@)]
        /\ walk' = [walk EXCEPT ![i] = NoWalk]
    BY <1>1, HandOverFacts
  <1>3. PICK kept \in [Keys -> Stamps] :
          LET read == [task |-> Head(reading[i]), configs |-> kept, known |-> Present] IN
          /\ \A k \in Keys : kept[k] \in {0, configs[k]}
          /\ read \in Reads
          /\ writing' = [writing EXCEPT ![i] = Append(@, read)]
    BY <1>1, HandOverFacts
  <1> DEFINE read == [task |-> Head(reading[i]), configs |-> kept, known |-> Present]
  <1>4. /\ writing \in [Instances -> Seq(Reads)] /\ reading \in [Instances -> Seq(Tasks)]
        /\ q \in Seq(Reads) /\ read \in Reads
        /\ \A j \in Instances \ {i} :
             reading'[j] = reading[j] /\ walk'[j] = walk[j] /\ writing'[j] = writing[j]
        /\ reading'[i] = Tail(reading[i]) /\ walk'[i] = NoWalk /\ writing'[i] = Append(q, read)
    BY <1>1, <1>2, <1>3 DEF RecorderTypeOK
  <1>5. /\ Len(q) \in Nat /\ DOMAIN q = 1 .. Len(q)
        /\ DOMAIN Append(q, read) = 1 .. Len(q) + 1
        /\ \A n \in DOMAIN q : Append(q, read)[n] = q[n]
        /\ Append(q, read)[Len(q) + 1] = read
        /\ q # <<>> => Head(Append(q, read)) = Head(q)
    <2> HIDE DEF read, q
    <2>1. QED
      BY <1>4, AppendFacts
  <1>6. read.task = Head(reading[i]) /\ read.configs = kept /\ read.known = Present
    OBVIOUS
  <1> HIDE DEF read
  <1>7. DOMAIN writing'[i] = 1 .. Len(q) + 1
        /\ \A n \in DOMAIN writing'[i] :
             \/ n \in DOMAIN q /\ writing'[i][n] = q[n]
             \/ n = Len(q) + 1 /\ writing'[i][n] = read
    BY <1>4, <1>5
  <1>8. /\ Part(Tail(reading[i]), reading[i]) /\ Head(reading[i]) = reading[i][1]
        /\ 1 \in DOMAIN reading[i]
        /\ Tail(reading[i]) \in Seq(Tasks) /\ Len(reading[i]) \in Nat
        /\ DOMAIN reading'[i] = 1 .. Len(reading[i]) - 1
        /\ \A n \in DOMAIN reading'[i] :
             n + 1 \in DOMAIN reading[i] /\ reading'[i][n] = reading[i][n + 1]
    <2>1. reading[i] \in Seq(Tasks) /\ reading'[i] = Tail(reading[i])
      BY <1>4
    <2>2. QED
      BY <2>1, TailIsPart
  <1>9. /\ \A k \in Keys : live[k].saved \in Nat /\ live[k].gone \in Nat /\ head[k].at \in Nat
        /\ \A k \in Keys : kept[k] \in Nat /\ configs[k] \in Nat
        /\ \A j \in Instances, k \in Keys :
             /\ walk[j].configs[k] \in Nat
             /\ \A n \in DOMAIN writing[j] : writing[j][n].configs[k] \in Nat
    BY <1>1, MomentsAreNaturals DEF Stamps
  <1>10. \A k \in Keys :
           /\ kept[k] <= live[k].saved
           /\ kept[k] # 0 => \A n \in DOMAIN q : q[n].configs[k] <= kept[k]
    BY <1>3, <1>9 DEF Read
  <1>11. \A k \in Keys \ Present :
           \/ live[k].saved = 0
           \/ live[k].saved < live[k].gone
    BY DEF RecorderInv, MomentsOK, Present
  <1>12. ReadsOK'
    <2>1. ASSUME NEW j \in Instances PROVE Read(j, walk[j].configs)'
      <3>1. CASE j = i
        BY <1>4, <1>9, <3>1 DEF Read, NoWalk
      <3>2. CASE j # i
        BY <1>4, <3>2 DEF RecorderInv, ReadsOK, Read
      <3>3. QED
        BY <3>1, <3>2
    <2>2. ASSUME NEW j \in Instances, NEW n \in DOMAIN writing'[j], NEW k \in Keys
          PROVE  writing'[j][n].configs[k] <= live'[k].saved
      <3>1. CASE j # i
        BY <1>4, <3>1 DEF RecorderInv, ReadsOK
      <3>2. CASE j = i
        <4>1. CASE n \in DOMAIN q /\ writing'[i][n] = q[n]
          BY <3>2, <4>1 DEF RecorderInv, ReadsOK
        <4>2. CASE writing'[i][n] = read
          BY <1>6, <1>10, <3>2, <4>2
        <4>3. QED
          BY <1>7, <3>2, <4>1, <4>2
      <3>3. QED
        BY <3>1, <3>2
    <2>3. QED
      BY <2>1, <2>2 DEF ReadsOK
  <1>13. TurnsOK'
    <2>1. \A j \in Instances : turn[j].active => Head(writing'[j]) = Head(writing[j])
      BY <1>1, <1>4, <1>5 DEF RecorderTypeOK
    <2>2. QED
      BY <2>1 DEF RecorderInv, TurnsOK, Entered
  <1>14. QueuesOK'
    <2>1. ASSUME NEW j \in Instances, j # i PROVE Sorted(writing[j])' /\ GoneSince(writing[j])'
      BY <1>4, <2>1, SMTT(30) DEF RecorderInv, QueuesOK, Sorted, GoneSince
    <2>2. Sorted(writing[i])'
      <3>1. ASSUME NEW m \in DOMAIN writing'[i], NEW n \in DOMAIN writing'[i], NEW k \in Keys,
                   m < n, writing'[i][m].configs[k] # 0, writing'[i][n].configs[k] # 0
            PROVE  writing'[i][m].configs[k] <= writing'[i][n].configs[k]
        <4>1. m \in DOMAIN q /\ writing'[i][m] = q[m]
          BY <1>5, <1>7, <3>1
        <4>2. CASE n \in DOMAIN q /\ writing'[i][n] = q[n]
          BY <3>1, <4>1, <4>2 DEF RecorderInv, QueuesOK, Sorted
        <4>3. CASE writing'[i][n] = read
          BY <1>6, <1>10, <3>1, <4>1, <4>3
        <4>4. QED
          BY <1>7, <4>2, <4>3
      <3>2. QED
        BY <3>1 DEF Sorted
    <2>3. GoneSince(writing[i])'
      <3>1. ASSUME NEW m \in DOMAIN writing'[i], NEW n \in DOMAIN writing'[i],
                   NEW k \in Keys \ writing'[i][n].known,
                   m <= n, writing'[i][m].configs[k] # 0
            PROVE  writing'[i][m].configs[k] < live[k].gone
        <4>1. CASE n \in DOMAIN q /\ writing'[i][n] = q[n]
          <5>1. m \in DOMAIN q /\ writing'[i][m] = q[m]
            BY <1>5, <1>7, <3>1, <4>1
          <5>2. QED
            BY <3>1, <4>1, <5>1 DEF RecorderInv, QueuesOK, GoneSince
        <4>2. CASE writing'[i][n] = read
          <5>1. writing'[i][m].configs[k] <= live[k].saved /\ writing'[i][m].configs[k] \in Nat
            BY <1>6, <1>7, <1>9, <1>10 DEF RecorderInv, ReadsOK
          <5>2. live[k].saved = 0 \/ live[k].saved < live[k].gone
            BY <1>6, <1>11, <4>2
          <5>3. QED
            BY <1>9, <3>1, <5>1, <5>2
        <4>3. QED
          BY <1>7, <4>1, <4>2
      <3>2. QED
        BY <3>1 DEF GoneSince
    <2>4. QED
      BY <2>1, <2>2, <2>3 DEF QueuesOK
  <1>15. OneOpening' /\ OpeningsOK'
    <2>1. \A m, n \in DOMAIN reading'[i] :
            reading'[i][m] = Opening /\ reading'[i][n] = Opening => m = n
      BY <1>8, SMTT(30) DEF RecorderInv, OneOpening
    <2>2. read.task = Opening =>
            /\ \A n \in DOMAIN reading'[i] : reading'[i][n] # Opening
            /\ \A n \in DOMAIN q : q[n].task # Opening
            /\ phase = "open" /\ opened /\ i = now
      <3>1. ASSUME read.task = Opening
            PROVE  reading[i][1] = Opening /\ \A n \in DOMAIN reading'[i] : n + 1 # 1
        BY <1>6, <1>8, <3>1
      <3>2. QED
        BY <1>8, <3>1 DEF RecorderInv, OneOpening, OpeningsOK
    <2>3. \A m, n \in DOMAIN writing'[i] :
            writing'[i][m].task = Opening /\ writing'[i][n].task = Opening => m = n
      BY <1>7, <2>2 DEF RecorderInv, OneOpening
    <2>4. OneOpening'
      <3>1. \A j \in Instances \ {i} :
              /\ \A m, n \in DOMAIN reading'[j] :
                   reading'[j][m] = Opening /\ reading'[j][n] = Opening => m = n
              /\ \A m, n \in DOMAIN writing'[j] :
                   writing'[j][m].task = Opening /\ writing'[j][n].task = Opening => m = n
        BY <1>4 DEF RecorderInv, OneOpening
      <3>2. QED
        BY <2>1, <2>3, <3>1 DEF OneOpening
    <2>5. /\ \A n \in DOMAIN reading'[i] : reading'[i][n] = Opening =>
               phase = "open" /\ opened /\ i = now
          /\ \A n \in DOMAIN writing'[i] : writing'[i][n].task = Opening =>
               phase = "open" /\ opened /\ i = now
          /\ \A m \in DOMAIN reading'[i], n \in DOMAIN writing'[i] :
               ~(reading'[i][m] = Opening /\ writing'[i][n].task = Opening)
      <3>1. \A n \in DOMAIN reading'[i] : reading'[i][n] = Opening =>
              phase = "open" /\ opened /\ i = now
        BY <1>8 DEF RecorderInv, OpeningsOK
      <3>2. \A n \in DOMAIN q : q[n].task = Opening => phase = "open" /\ opened /\ i = now
        BY DEF RecorderInv, OpeningsOK
      <3>3. ASSUME NEW n \in DOMAIN writing'[i], writing'[i][n].task = Opening
            PROVE  phase = "open" /\ opened /\ i = now
        <4>1. CASE n \in DOMAIN q /\ writing'[i][n] = q[n]
          BY <3>2, <3>3, <4>1
        <4>2. CASE writing'[i][n] = read
          BY <2>2, <3>3, <4>2
        <4>3. QED
          BY <1>7, <4>1, <4>2
      <3>4. ASSUME NEW m \in DOMAIN reading'[i], NEW n \in DOMAIN writing'[i],
                   reading'[i][m] = Opening, writing'[i][n].task = Opening
            PROVE  FALSE
        <4>1. CASE n \in DOMAIN q /\ writing'[i][n] = q[n]
          BY <1>8, <3>4, <4>1 DEF RecorderInv, OpeningsOK
        <4>2. CASE writing'[i][n] = read
          BY <2>2, <3>4, <4>2
        <4>3. QED
          BY <1>7, <4>1, <4>2
      <3>5. QED
        BY <3>1, <3>3, <3>4
    <2>6. OpeningsOK'
      <3>1. UNCHANGED <<phase, opened, now, armed, pending>>
        OBVIOUS
      <3>2. armed' \/ pending' => phase' = "open"
        BY <3>1 DEF RecorderInv, OpeningsOK
      <3>3. ASSUME NEW j \in Instances, j # i
            PROVE  /\ \A n \in DOMAIN reading'[j] : reading'[j][n] = Opening =>
                        phase = "open" /\ opened /\ j = now
                   /\ \A n \in DOMAIN writing'[j] : writing'[j][n].task = Opening =>
                        phase = "open" /\ opened /\ j = now
                   /\ \A m \in DOMAIN reading'[j], n \in DOMAIN writing'[j] :
                        ~(reading'[j][m] = Opening /\ writing'[j][n].task = Opening)
        BY <1>4, <3>3 DEF RecorderInv, OpeningsOK
      <3>4. QED
        BY <2>5, <3>1, <3>2, <3>3 DEF OpeningsOK
    <2>7. QED
      BY <2>4, <2>6
  <1>16. Alone => Alone'
    <2>1. ~Idle(i) /\ \A j \in Instances \ {i} : Idle(j) <=> Idle(j)'
      BY <1>4 DEF Idle
    <2>2. QED
      BY <2>1 DEF Alone
  <1>17. NotBehind /\ Ahead(configs) => NotBehind'
    <2> SUFFICES ASSUME NotBehind, Ahead(configs) PROVE NotBehind'
      OBVIOUS
    <2>1. ASSUME NEW j \in Instances, walk'[j].active PROVE Ahead(walk[j].configs)'
      <3>1. j # i
        BY <1>4, <2>1, NothingIsTyped
      <3>2. QED
        BY <1>4, <2>1, <3>1 DEF NotBehind, Ahead
    <2>2. ASSUME NEW j \in Instances, NEW n \in DOMAIN writing[j], writing'[j][n] = writing[j][n]
          PROVE  Ahead(writing[j][n].configs)' /\ DeletedSince(writing[j][n].known)'
      BY <2>2 DEF NotBehind, Ahead, DeletedSince
    <2>3. Ahead(kept) /\ DeletedSince(Present)
      <3>1. Ahead(kept)
        BY <1>3 DEF Ahead
      <3>2. DeletedSince(Present)
        <4>1. \A k \in Keys : head[k].is = "saved" =>
                head[k].at # 0 /\ head[k].at <= live[k].saved
          BY DEF RecorderInv, HeadOK
        <4>2. QED
          BY <1>9, <1>11, <4>1 DEF DeletedSince
      <3>3. QED
        BY <3>1, <3>2
    <2>4. ASSUME NEW n \in DOMAIN writing'[i], writing'[i][n] = read
          PROVE  Ahead(writing[i][n].configs)' /\ DeletedSince(writing[i][n].known)'
      BY <1>6, <2>3, <2>4 DEF Ahead, DeletedSince
    <2>5. QED
      BY <1>4, <1>7, <2>1, <2>2, <2>4 DEF NotBehind
  <1>18. QED
    BY <1>12, <1>13, <1>14, <1>15, <1>16, <1>17

(* The walk of one instance goes on, or ends without a read.               *)
LEMMA WalkKeeps ==
  ASSUME RecorderInv, RecorderTypeOK', NEW i \in Instances,
         \A j \in Instances \ {i} : walk'[j] = walk[j], Read(i, walk'[i].configs),
         UNCHANGED <<live, clock, head, writing, turn, loose>>
  PROVE  /\ (MomentsOK /\ HeadOK /\ LooseOK /\ ReadsOK /\ TurnsOK /\ QueuesOK)'
         /\ NotBehind /\ (walk'[i].active => Ahead(walk'[i].configs)) => NotBehind'
  <1>1. (MomentsOK /\ HeadOK /\ LooseOK)'
    BY DEF RecorderInv, MomentsOK, HeadOK, LooseOK
  <1>2. TurnsOK' /\ QueuesOK'
    BY DEF RecorderInv, TurnsOK, Entered, QueuesOK, Sorted, GoneSince
  <1>3. ReadsOK'
    <2>1. ASSUME NEW j \in Instances PROVE Read(j, walk[j].configs)'
      BY DEF RecorderInv, ReadsOK, Read
    <2>2. QED
      BY <2>1 DEF RecorderInv, ReadsOK
  <1>4. ASSUME NotBehind, walk'[i].active => Ahead(walk'[i].configs)
        PROVE  NotBehind'
    <2>1. ASSUME NEW j \in Instances, walk'[j].active PROVE Ahead(walk[j].configs)'
      BY <1>4, <2>1 DEF NotBehind, Ahead
    <2>2. ASSUME NEW j \in Instances, NEW n \in DOMAIN writing[j]
          PROVE  Ahead(writing[j][n].configs)' /\ DeletedSince(writing[j][n].known)'
      BY <1>4 DEF NotBehind, Ahead, DeletedSince
    <2>3. QED
      BY <2>1, <2>2 DEF NotBehind
  <1>5. QED
    BY <1>1, <1>2, <1>3, <1>4

LEMMA NothingIsRead ==
  ASSUME RecorderInv, NEW i \in Instances
  PROVE  /\ NoWalk.configs \in [Keys -> Stamps]
         /\ Read(i, NoWalk.configs) /\ Ahead(NoWalk.configs)
  <1>1. \A k \in Keys : live[k].saved \in Nat
    BY MomentsAreNaturals DEF RecorderInv
  <1>2. QED
    BY <1>1, NothingIsTyped DEF NoWalk, Read, Ahead

LEMMA BeginReadStep ==
  ASSUME RecorderInv, NEW i \in Instances, BeginRead(i)
  PROVE  RecorderInv'
  <1>1. RecorderTypeOK /\ RecorderTypeOK'
    BY ReadingIsTyped DEF RecorderInv
  <1>2. /\ UNCHANGED <<live, clock, head, phase, now, opened, armed, pending, turn, loose, overlapped>>
        /\ reading[i] # <<>>
    BY DEF BeginRead, harness, entry
  <1>3. MomentsOK' /\ HeadOK' /\ LooseOK'
    BY <1>2 DEF RecorderInv, MomentsOK, HeadOK, LooseOK
  <1>4. CASE Present = {}
    <2>1. HandOver(i, NoWalk.configs)
      BY <1>4 DEF BeginRead
    <2>2. QED
      BY <1>1, <1>2, <1>3, <2>1, NothingIsRead, HandOverKeeps DEF RecorderInv
  <1>5. CASE Present # {}
    <2> DEFINE new == [NoWalk EXCEPT !.active = TRUE, !.size = Cardinality(Present)]
    <2>1. walk' = [walk EXCEPT ![i] = new] /\ UNCHANGED <<reading, writing>>
      BY <1>5 DEF BeginRead
    <2>2. new.configs = NoWalk.configs
      BY DEF NoWalk
    <2>3. walk'[i].configs = NoWalk.configs /\ \A j \in Instances \ {i} : walk'[j] = walk[j]
      BY <1>1, <2>1, <2>2 DEF RecorderTypeOK
    <2> HIDE DEF new
    <2>4. (ReadsOK /\ TurnsOK /\ QueuesOK)' /\ (NotBehind => NotBehind')
      BY <1>1, <1>2, <2>1, <2>3, NothingIsRead, WalkKeeps
    <2>5. OneOpening' /\ OpeningsOK' /\ (Alone => Alone')
      BY <1>2, <2>1, QuietKeeps
    <2>6. QED
      BY <1>1, <1>2, <1>3, <2>4, <2>5 DEF RecorderInv
  <1>6. QED
    BY <1>4, <1>5

LEMMA LoadStep ==
  ASSUME RecorderInv, NEW i \in Instances, NEW k \in Keys, Load(i, k)
  PROVE  RecorderInv'
  <1>1. RecorderTypeOK /\ RecorderTypeOK'
    BY ReadingIsTyped DEF RecorderInv
  <1>2. PICK fails \in {FALSE, TRUE} :
       LET seen    == walk[i].seen \cup {k}
           configs == [walk[i].configs EXCEPT ![k] =
                         IF live[k].is = "saved" /\ ~fails THEN live[k].saved ELSE 0]
       IN  IF Present \subseteq seen
           THEN HandOver(i, configs)
           ELSE /\ walk' = [walk EXCEPT ![i].seen = seen, ![i].configs = configs]
                /\ UNCHANGED <<reading, writing>>
    BY DEF Load
  <1> DEFINE seen    == walk[i].seen \cup {k}
             loaded  == IF live[k].is = "saved" /\ ~fails THEN live[k].saved ELSE 0
             configs == [walk[i].configs EXCEPT ![k] = loaded]
  <1>3. /\ UNCHANGED <<live, clock, head, phase, now, opened, armed, pending, turn, loose, overlapped>>
        /\ walk[i].active /\ reading[i] # <<>>
    BY <1>1 DEF Load, harness, entry, RecorderTypeOK
  <1>4. /\ walk[i].configs \in [Keys -> Stamps] /\ live[k].saved \in Stamps
        /\ \A d \in Keys : live[d].saved \in Nat /\ walk[i].configs[d] \in Nat
    BY <1>1, MomentsAreNaturals DEF RecorderTypeOK
  <1>5. loaded \in Stamps /\ loaded \in {0, live[k].saved}
    BY <1>4 DEF Stamps
  <1>6. /\ Present \subseteq seen => HandOver(i, configs)
        /\ ~(Present \subseteq seen) =>
             /\ walk' = [walk EXCEPT ![i].seen = seen, ![i].configs = configs]
             /\ UNCHANGED <<reading, writing>>
    BY <1>2
  <1> HIDE DEF seen, loaded
  <1>7. /\ configs \in [Keys -> Stamps] /\ configs[k] = loaded
        /\ \A d \in Keys \ {k} : configs[d] = walk[i].configs[d]
    BY <1>4, <1>5
  <1> HIDE DEF configs
  <1>8. Read(i, configs)
    BY <1>4, <1>5, <1>7 DEF RecorderInv, ReadsOK, Read
  <1>9. NotBehind => Ahead(configs)
    BY <1>3, <1>5, <1>7 DEF RecorderInv, HeadOK, NotBehind, Ahead
  <1>10. MomentsOK' /\ HeadOK' /\ LooseOK'
    BY <1>3 DEF RecorderInv, MomentsOK, HeadOK, LooseOK
  <1>11. CASE Present \subseteq seen
    BY <1>1, <1>3, <1>6, <1>7, <1>8, <1>9, <1>10, <1>11, HandOverKeeps DEF RecorderInv
  <1>12. CASE ~(Present \subseteq seen)
    <2>1. walk'[i].configs = configs /\ \A j \in Instances \ {i} : walk'[j] = walk[j]
      BY <1>1, <1>6, <1>12, SMTT(30) DEF RecorderTypeOK
    <2>2. (ReadsOK /\ TurnsOK /\ QueuesOK)' /\ (NotBehind => NotBehind')
      BY <1>1, <1>3, <1>6, <1>8, <1>9, <1>12, <2>1, WalkKeeps
    <2>3. OneOpening' /\ OpeningsOK' /\ (Alone => Alone')
      BY <1>3, <1>6, <1>12, QuietKeeps
    <2>4. QED
      BY <1>1, <1>3, <1>10, <2>2, <2>3 DEF RecorderInv
  <1>13. QED
    BY <1>11, <1>12

LEMMA ReadBreaksStep ==
  ASSUME RecorderInv, NEW i \in Instances, ReadBreaks(i)
  PROVE  RecorderInv'
  <1>1. RecorderTypeOK /\ RecorderTypeOK'
    BY ReadingIsTyped DEF RecorderInv
  <1>2. /\ UNCHANGED <<live, clock, head, phase, now, opened, pending, writing, turn, loose, overlapped>>
        /\ reading[i] # <<>> /\ ArmAfter(Head(reading[i]))
        /\ walk'[i] = NoWalk /\ reading'[i] = Tail(reading[i])
        /\ \A j \in Instances \ {i} : walk'[j] = walk[j] /\ reading'[j] = reading[j]
    BY <1>1 DEF ReadBreaks, harness, RecorderTypeOK
  <1>3. /\ (MomentsOK /\ HeadOK /\ LooseOK /\ ReadsOK /\ TurnsOK /\ QueuesOK)'
        /\ NotBehind => NotBehind'
    BY <1>1, <1>2, NothingIsTyped, NothingIsRead, WalkKeeps
  <1>4. /\ Head(reading[i]) = reading[i][1] /\ 1 \in DOMAIN reading[i]
        /\ Len(reading[i]) \in Nat /\ DOMAIN reading'[i] = 1 .. Len(reading[i]) - 1
        /\ \A n \in DOMAIN reading'[i] :
             n + 1 \in DOMAIN reading[i] /\ reading'[i][n] = reading[i][n + 1]
    <2>1. reading[i] \in Seq(Tasks)
      BY <1>1 DEF RecorderTypeOK
    <2>2. QED
      BY <1>2, <2>1, TailIsPart
  <1>5. OneOpening'
    <2>1. \A m, n \in DOMAIN reading'[i] :
            reading'[i][m] = Opening /\ reading'[i][n] = Opening => m = n
      BY <1>4, SMTT(30) DEF RecorderInv, OneOpening
    <2>2. QED
      BY <1>2, <2>1, ZenonT(40) DEF RecorderInv, OneOpening
  <1>6. OpeningsOK'
    <2>1. armed' => phase = "open"
      <3>1. armed' => armed \/ Head(reading[i]) = Opening
        BY <1>2 DEF ArmAfter
      <3>2. QED
        BY <1>4, <3>1 DEF RecorderInv, OpeningsOK
    <2>2. \A n \in DOMAIN reading'[i] : \E m \in DOMAIN reading[i] : reading'[i][n] = reading[i][m]
      BY <1>4
    <2>3. ASSUME NEW j \in Instances, NEW n \in DOMAIN reading'[j]
          PROVE  \E m \in DOMAIN reading[j] : reading'[j][n] = reading[j][m]
      <3>1. CASE j = i
        BY <2>2, <2>3, <3>1
      <3>2. CASE j # i
        BY <1>2, <2>3, <3>2
      <3>3. QED
        BY <3>1, <3>2
    <2>4. ASSUME NEW j \in Instances, NEW n \in DOMAIN reading'[j], reading'[j][n] = Opening
          PROVE  phase = "open" /\ opened /\ j = now
      BY <2>3, <2>4 DEF RecorderInv, OpeningsOK
    <2>5. ASSUME NEW j \in Instances, NEW n \in DOMAIN writing[j], writing[j][n].task = Opening
          PROVE  phase = "open" /\ opened /\ j = now
      BY <2>5 DEF RecorderInv, OpeningsOK
    <2>6. ASSUME NEW j \in Instances, NEW m \in DOMAIN reading'[j], NEW n \in DOMAIN writing[j],
                 reading'[j][m] = Opening
          PROVE  writing[j][n].task # Opening
      BY <2>3, <2>6 DEF RecorderInv, OpeningsOK
    <2>7. pending' => phase = "open"
      BY <1>2 DEF RecorderInv, OpeningsOK
    <2>8. QED
      BY <1>2, <2>1, <2>4, <2>5, <2>6, <2>7 DEF OpeningsOK
  <1>7. Alone => Alone'
    <2>1. ~Idle(i) /\ \A j \in Instances \ {i} : Idle(j) <=> Idle(j)'
      BY <1>2 DEF Idle
    <2>2. QED
      BY <1>2, <2>1 DEF Alone
  <1>8. QED
    BY <1>1, <1>2, <1>3, <1>5, <1>6, <1>7 DEF RecorderInv


(* The history changes, and nothing that was read does.                    *)
LEMMA RecordingKeeps ==
  ASSUME RecorderInv,
         UNCHANGED <<live, clock, phase, now, opened, armed, pending, reading, walk, writing>>
  PROVE  (MomentsOK /\ ReadsOK /\ QueuesOK /\ OneOpening /\ OpeningsOK)'
  <1>1. MomentsOK'
    BY DEF RecorderInv, MomentsOK
  <1>2. ReadsOK'
    BY DEF RecorderInv, ReadsOK, Read
  <1>3. QueuesOK'
    BY DEF RecorderInv, QueuesOK, Sorted, GoneSince
  <1>4. OneOpening' /\ OpeningsOK'
    BY DEF RecorderInv, OneOpening, OpeningsOK
  <1>5. QED
    BY <1>1, <1>2, <1>3, <1>4

LEMMA BeginWriteStep ==
  ASSUME RecorderInv, NEW i \in Instances, BeginWrite(i)
  PROVE  RecorderInv'
  <1>1. RecorderTypeOK /\ RecorderTypeOK'
    BY WritingIsTyped DEF RecorderInv
  <1>2. UNCHANGED <<live, clock, head, phase, now, opened, armed, pending, reading, walk,
                    writing, loose, overlapped>>
    BY DEF BeginWrite, harness, entry
  <1>3. PICK listed \in BOOLEAN :
          turn' = [turn EXCEPT ![i] =
                     [NoTurn EXCEPT !.active = TRUE, !.writes = Entered(Head(writing[i])),
                        !.deletions = IF listed THEN DeletionsToRecord(Head(writing[i])) ELSE {}]]
    BY DEF BeginWrite
  <1> DEFINE t == Head(writing[i])
             d == IF listed THEN DeletionsToRecord(t) ELSE {}
             new == [NoTurn EXCEPT !.active = TRUE, !.writes = Entered(t), !.deletions = d]
  <1>4. d \cap t.known = {}
    BY DEF DeletionsToRecord
  <1>5. turn' = [turn EXCEPT ![i] = new] /\ new.active /\ new.writes = Entered(t) /\ new.deletions = d
    BY <1>3 DEF NoTurn
  <1> HIDE DEF new, d
  <1>6. turn'[i] = new /\ \A j \in Instances \ {i} : turn'[j] = turn[j]
    BY <1>1, <1>5 DEF RecorderTypeOK
  <1>7. TurnsOK'
    <2>1. ASSUME NEW j \in Instances, j # i
          PROVE  /\ turn'[j].active =>
                      /\ turn'[j].writes \subseteq Entered(Head(writing[j]))
                      /\ turn'[j].deletions \cap Head(writing[j]).known = {}
                 /\ ~turn'[j].active => turn'[j].writes = {}
      BY <1>6, <2>1 DEF RecorderInv, TurnsOK
    <2>2. /\ turn'[i].active
          /\ turn'[i].writes \subseteq Entered(Head(writing[i]))
          /\ turn'[i].deletions \cap Head(writing[i]).known = {}
      BY <1>4, <1>5, <1>6
    <2>3. QED
      BY <1>2, <2>1, <2>2 DEF TurnsOK, Entered
  <1>8. HeadOK' /\ LooseOK' /\ (NotBehind => NotBehind')
    BY <1>2 DEF RecorderInv, HeadOK, LooseOK, NotBehind, Ahead, DeletedSince
  <1>9. (MomentsOK /\ ReadsOK /\ QueuesOK /\ OneOpening /\ OpeningsOK)' /\ (Alone => Alone')
    BY <1>2, RecordingKeeps, QuietKeeps
  <1>10. QED
    BY <1>1, <1>2, <1>7, <1>8, <1>9 DEF RecorderInv

(* What a deletion that is recorded, or fails to be, does to the history.  *)
LEMMA MarkDeletedFacts ==
  ASSUME RecorderTypeOK, NEW i \in Instances, NEW k \in Keys, MarkDeleted(i, k)
  PROVE  /\ UNCHANGED <<live, clock, phase, now, opened, armed, pending, reading, walk,
                        writing, loose, overlapped>>
         /\ \A j \in Instances \ {i} : turn'[j] = turn[j]
         /\ turn[i].active /\ turn'[i].active /\ turn'[i].writes = turn[i].writes
         /\ turn'[i].deletions \subseteq turn[i].deletions /\ k \in turn[i].deletions
         /\ \A d \in Keys \ {k} : head'[d] = head[d]
         /\ head'[k].at = head[k].at
         /\ \/ head'[k].is = head[k].is
            \/ head[k].is = "saved" /\ head'[k].is = "deleted"
  <1>1. head[k] \in [at : Stamps, is : {"never", "saved", "deleted", "forgotten"}]
    BY DEF RecorderTypeOK
  <1> DEFINE new == [head[k] EXCEPT !.is = IF @ = "saved" THEN "deleted" ELSE @]
  <1>2. new.at = head[k].at /\ (new.is = head[k].is \/ (head[k].is = "saved" /\ new.is = "deleted"))
    BY <1>1
  <1>3. head' = head \/ head' = [head EXCEPT ![k] = new]
    BY <1>1 DEF MarkDeleted, RecordDeletion, RecorderTypeOK
  <1> HIDE DEF new
  <1>4. /\ \A d \in Keys \ {k} : head'[d] = head[d]
        /\ head'[k].at = head[k].at
        /\ \/ head'[k].is = head[k].is
           \/ head[k].is = "saved" /\ head'[k].is = "deleted"
    BY <1>2, <1>3 DEF RecorderTypeOK
  <1>5. /\ \A j \in Instances \ {i} : turn'[j] = turn[j]
        /\ turn[i].active /\ turn'[i].active /\ turn'[i].writes = turn[i].writes
        /\ turn'[i].deletions \subseteq turn[i].deletions /\ k \in turn[i].deletions
    <2> DEFINE left == [turn[i] EXCEPT !.deletions = @ \ {k}]
    <2>1. turn[i] \in [active : BOOLEAN, deletions : SUBSET Keys, writes : SUBSET Keys]
      BY DEF RecorderTypeOK
    <2>2. /\ left.active = turn[i].active /\ left.writes = turn[i].writes
          /\ left.deletions \subseteq turn[i].deletions
      BY <2>1
    <2>3. turn' = [turn EXCEPT ![i] = left] /\ turn[i].active /\ k \in turn[i].deletions
      BY DEF MarkDeleted, RecorderTypeOK
    <2> HIDE DEF left
    <2>4. turn'[i] = left /\ \A j \in Instances \ {i} : turn'[j] = turn[j]
      BY <2>3 DEF RecorderTypeOK
    <2>5. QED
      BY <2>2, <2>3, <2>4
  <1>6. UNCHANGED <<live, clock, phase, now, opened, armed, pending, reading, walk,
                    writing, loose, overlapped>>
    BY DEF MarkDeleted, harness, entry
  <1>7. QED
    BY <1>4, <1>5, <1>6

LEMMA MarkDeletedStep ==
  ASSUME RecorderInv, NEW i \in Instances, NEW k \in Keys, MarkDeleted(i, k)
  PROVE  RecorderInv'
  <1>1. RecorderTypeOK /\ RecorderTypeOK'
    BY WritingIsTyped DEF RecorderInv
  <1>2. /\ UNCHANGED <<live, clock, phase, now, opened, armed, pending, reading, walk,
                       writing, loose, overlapped>>
        /\ \A j \in Instances \ {i} : turn'[j] = turn[j]
        /\ turn[i].active /\ turn'[i].active /\ turn'[i].writes = turn[i].writes
        /\ turn'[i].deletions \subseteq turn[i].deletions
        /\ \A d \in Keys :
             /\ head'[d].at = head[d].at
             /\ \/ head'[d].is = head[d].is
                \/ head[d].is = "saved" /\ head'[d].is = "deleted"
    BY <1>1, MarkDeletedFacts
  <1>3. HeadOK' /\ LooseOK'
    BY <1>2 DEF RecorderInv, HeadOK, LooseOK
  <1>4. TurnsOK'
    <2>1. ASSUME NEW j \in Instances
          PROVE  /\ turn'[j].active = turn[j].active /\ turn'[j].writes = turn[j].writes
                 /\ turn'[j].deletions \subseteq turn[j].deletions
      <3>1. CASE j = i
        <4>1. turn[i].active \in BOOLEAN /\ turn'[i].active \in BOOLEAN
          BY <1>1 DEF RecorderTypeOK
        <4>2. QED
          BY <1>2, <3>1, <4>1
      <3>2. CASE j # i
        BY <1>2, <3>2
      <3>3. QED
        BY <3>1, <3>2
    <2>2. QED
      BY <1>2, <2>1 DEF RecorderInv, TurnsOK, Entered
  <1>5. NotBehind => NotBehind'
    BY <1>2 DEF NotBehind, Ahead, DeletedSince
  <1>6. (MomentsOK /\ ReadsOK /\ QueuesOK /\ OneOpening /\ OpeningsOK)' /\ (Alone => Alone')
    BY <1>2, RecordingKeeps, QuietKeeps
  <1>7. QED
    BY <1>1, <1>2, <1>3, <1>4, <1>5, <1>6 DEF RecorderInv

(* What a state that is recorded, or fails to be, does to the history.     *)
LEMMA WriteOneFacts ==
  ASSUME RecorderInv, NEW i \in Instances, NEW k \in Keys, WriteOne(i, k)
  PROVE  /\ UNCHANGED <<live, clock, phase, now, opened, armed, pending, reading, walk,
                        writing, loose, overlapped>>
         /\ \A j \in Instances \ {i} : turn'[j] = turn[j]
         /\ turn[i].active /\ turn'[i].active /\ turn'[i].deletions = turn[i].deletions
         /\ turn'[i].writes \subseteq turn[i].writes
         /\ 1 \in DOMAIN writing[i] /\ writing[i][1].configs[k] # 0 /\ writing[i] # <<>>
         /\ \A d \in Keys \ {k} : head'[d] = head[d]
         /\ head'[k] \in {head[k], [at |-> writing[i][1].configs[k], is |-> "saved"]}
  <1>1. RecorderTypeOK
    BY DEF RecorderInv
  <1>2. UNCHANGED <<live, clock, phase, now, opened, armed, pending, reading, walk,
                    writing, loose, overlapped>>
    BY DEF WriteOne, harness, entry
  <1>3. /\ \A j \in Instances \ {i} : turn'[j] = turn[j]
        /\ turn[i].active /\ turn'[i].active /\ turn'[i].deletions = turn[i].deletions
        /\ turn'[i].writes \subseteq turn[i].writes /\ k \in turn[i].writes
    <2> DEFINE left == [turn[i] EXCEPT !.writes = @ \ {k}]
    <2>1. turn[i] \in [active : BOOLEAN, deletions : SUBSET Keys, writes : SUBSET Keys]
      BY <1>1 DEF RecorderTypeOK
    <2>2. /\ left.active = turn[i].active /\ left.deletions = turn[i].deletions
          /\ left.writes \subseteq turn[i].writes
      BY <2>1
    <2>3. turn' = [turn EXCEPT ![i] = left] /\ turn[i].active /\ k \in turn[i].writes
      BY <1>1 DEF WriteOne, RecorderTypeOK
    <2> HIDE DEF left
    <2>4. turn'[i] = left /\ \A j \in Instances \ {i} : turn'[j] = turn[j]
      BY <1>1, <2>3 DEF RecorderTypeOK
    <2>5. QED
      BY <2>2, <2>3, <2>4
  <1>4. writing[i] # <<>> /\ Head(writing[i]) = writing[i][1] /\ 1 \in DOMAIN writing[i]
    <2>1. writing[i] \in Seq(Reads) /\ writing[i] # <<>>
      BY <1>1, <1>3 DEF RecorderTypeOK
    <2>2. QED
      BY <2>1, TailIsPart
  <1>5. writing[i][1].configs[k] # 0
    BY <1>3, <1>4 DEF RecorderInv, TurnsOK, Entered
  <1>6. /\ \A d \in Keys \ {k} : head'[d] = head[d]
        /\ head'[k] \in {head[k], [at |-> writing[i][1].configs[k], is |-> "saved"]}
    <2>1. head' = head \/ head' = [head EXCEPT ![k] =
                                     [at |-> writing[i][1].configs[k], is |-> "saved"]]
      BY <1>4 DEF WriteOne, RecordState
    <2>2. QED
      BY <1>1, <2>1 DEF RecorderTypeOK
  <1>7. QED
    BY <1>2, <1>3, <1>4, <1>5, <1>6

LEMMA WriteOneStep ==
  ASSUME RecorderInv, NEW i \in Instances, NEW k \in Keys, WriteOne(i, k)
  PROVE  RecorderInv'
  <1> DEFINE q  == writing[i]
             at == q[1].configs[k]
  <1>1. RecorderTypeOK /\ RecorderTypeOK'
    BY WritingIsTyped DEF RecorderInv
  <1>2. /\ UNCHANGED <<live, clock, phase, now, opened, armed, pending, reading, walk,
                       writing, loose, overlapped>>
        /\ \A j \in Instances \ {i} : turn'[j] = turn[j]
        /\ turn[i].active /\ turn'[i].active /\ turn'[i].deletions = turn[i].deletions
        /\ turn'[i].writes \subseteq turn[i].writes
        /\ 1 \in DOMAIN q /\ at # 0 /\ q # <<>>
        /\ \A d \in Keys \ {k} : head'[d] = head[d]
        /\ head'[k] \in {head[k], [at |-> at, is |-> "saved"]}
    BY WriteOneFacts
  <1>3. /\ head'[k] = head[k] \/ (head'[k].at = at /\ head'[k].is = "saved")
        /\ q \in Seq(Reads) /\ \A n \in DOMAIN q : n \in Nat /\ n >= 1
    <2>1. q \in Seq(Reads)
      BY <1>1 DEF RecorderTypeOK
    <2>2. \A n \in DOMAIN q : n \in Nat /\ n >= 1
      BY <2>1
    <2>3. QED
      BY <1>2, <2>1, <2>2
  <1>4. HeadOK' /\ LooseOK'
    <2>1. at <= live[k].saved
      BY <1>2 DEF RecorderInv, ReadsOK
    <2>2. QED
      BY <1>2, <1>3, <2>1 DEF RecorderInv, HeadOK, LooseOK
  <1>5. TurnsOK'
    <2>1. ASSUME NEW j \in Instances
          PROVE  /\ turn'[j].active = turn[j].active /\ turn'[j].deletions = turn[j].deletions
                 /\ turn'[j].writes \subseteq turn[j].writes
      <3>1. CASE j = i
        <4>1. turn[i].active \in BOOLEAN /\ turn'[i].active \in BOOLEAN
          BY <1>1 DEF RecorderTypeOK
        <4>2. QED
          BY <1>2, <3>1, <4>1
      <3>2. CASE j # i
        BY <1>2, <3>2
      <3>3. QED
        BY <3>1, <3>2
    <2>2. QED
      BY <1>2, <2>1 DEF RecorderInv, TurnsOK, Entered
  <1>6. ASSUME Alone, NotBehind PROVE NotBehind'
    <2>1. \A j \in Instances : walk[j].active \/ writing[j] # <<>> => j = i
      BY <1>1, <1>2, <1>6 DEF Alone, Idle, RecorderTypeOK
    <2>2. ASSUME walk[i].active PROVE Ahead(walk[i].configs)'
      <3>1. walk[i].configs[k] # 0 => at <= walk[i].configs[k]
        BY <1>2 DEF RecorderInv, ReadsOK, Read
      <3>2. Ahead(walk[i].configs)
        BY <1>6, <2>2 DEF NotBehind
      <3>3. QED
        BY <1>2, <1>3, <3>1, <3>2 DEF Ahead
    <2>3. ASSUME NEW n \in DOMAIN q
          PROVE  Ahead(q[n].configs)' /\ DeletedSince(q[n].known)'
      <3>1. q[n].configs[k] # 0 => at <= q[n].configs[k]
        <4>1. CASE n = 1
          <5>1. q[1].configs[k] \in Nat
            BY <1>1, <1>2, MomentsAreNaturals
          <5>2. QED
            BY <4>1, <5>1
        <4>2. CASE n # 1
          <5>1. 1 < n
            BY <1>3, <2>3, <4>2
          <5>2. QED
            BY <1>2, <2>3, <5>1 DEF RecorderInv, QueuesOK, Sorted
        <4>3. QED
          BY <4>1, <4>2
      <3>2. k \notin q[n].known => at < live[k].gone
        <4>1. 1 <= n
          BY <1>3, <2>3
        <4>2. QED
          BY <1>2, <2>3, <4>1 DEF RecorderInv, QueuesOK, GoneSince
      <3>3. Ahead(q[n].configs) /\ DeletedSince(q[n].known)
        BY <1>6, <2>3 DEF NotBehind
      <3>4. Ahead(q[n].configs)'
        BY <1>2, <1>3, <3>1, <3>3 DEF Ahead
      <3>5. DeletedSince(q[n].known)'
        BY <1>2, <1>3, <3>2, <3>3 DEF DeletedSince
      <3>6. QED
        BY <3>4, <3>5
    <2>4. \A j \in Instances : walk'[j].active => Ahead(walk[j].configs)'
      BY <1>2, <2>1, <2>2
    <2>5. ASSUME NEW j \in Instances, NEW n \in DOMAIN writing'[j]
          PROVE  Ahead(writing[j][n].configs)' /\ DeletedSince(writing[j][n].known)'
      <3>1. writing[j] # <<>> /\ n \in DOMAIN writing[j]
        BY <1>2, <2>5
      <3>2. j = i
        BY <2>1, <3>1
      <3>3. QED
        BY <2>3, <3>1, <3>2
    <2>6. QED
      BY <2>4, <2>5 DEF NotBehind
  <1>7. (MomentsOK /\ ReadsOK /\ QueuesOK /\ OneOpening /\ OpeningsOK)' /\ (Alone => Alone')
    BY <1>2, RecordingKeeps, QuietKeeps
  <1>8. QED
    BY <1>1, <1>2, <1>4, <1>5, <1>6, <1>7 DEF RecorderInv

LEMMA EndWriteStep ==
  ASSUME RecorderInv, NEW i \in Instances, EndWrite(i)
  PROVE  RecorderInv'
  <1> DEFINE q == writing[i]
  <1>1. RecorderTypeOK /\ RecorderTypeOK'
    BY WritingIsTyped DEF RecorderInv
  <1>2. /\ UNCHANGED <<live, clock, head, phase, now, opened, pending, reading, walk, loose,
                       overlapped>>
        /\ ArmAfter(Head(q).task)
        /\ q # <<>> /\ writing'[i] = Tail(q) /\ turn'[i] = NoTurn
        /\ \A j \in Instances \ {i} : turn'[j] = turn[j] /\ writing'[j] = writing[j]
    BY <1>1 DEF EndWrite, harness, RecorderTypeOK
  <1>3. /\ Part(writing'[i], writing[i]) /\ Head(q) = q[1] /\ 1 \in DOMAIN q
        /\ DOMAIN writing'[i] \in SUBSET Nat
    <2>1. q \in Seq(Reads)
      BY <1>1 DEF RecorderTypeOK
    <2>2. writing'[i] \in Seq(Reads)
      BY <1>1 DEF RecorderTypeOK
    <2>3. DOMAIN writing'[i] \in SUBSET Nat
      BY <2>2
    <2>4. QED
      BY <1>2, <2>1, <2>3, TailIsPart
  <1>4. /\ Sorted(writing[i])' /\ GoneSince(writing[i])'
        /\ \A n \in DOMAIN writing'[i] : \E m \in DOMAIN writing[i] :
             writing'[i][n] = writing[i][m]
    BY <1>1, <1>2, <1>3, PartKeeps DEF RecorderInv
  <1>5. ASSUME NEW j \in Instances, NEW n \in DOMAIN writing'[j]
        PROVE  \E m \in DOMAIN writing[j] : writing'[j][n] = writing[j][m]
    <2>1. CASE j = i
      BY <1>4, <1>5, <2>1
    <2>2. CASE j # i
      BY <1>2, <1>5, <2>2
    <2>3. QED
      BY <2>1, <2>2
  <1>6. MomentsOK' /\ HeadOK' /\ LooseOK'
    BY <1>2 DEF RecorderInv, MomentsOK, HeadOK, LooseOK
  <1>7. ReadsOK'
    <2>1. ASSUME NEW j \in Instances PROVE Read(j, walk[j].configs)'
      BY <1>2, <1>5 DEF RecorderInv, ReadsOK, Read
    <2>2. ASSUME NEW j \in Instances, NEW n \in DOMAIN writing'[j], NEW k \in Keys
          PROVE  writing'[j][n].configs[k] <= live'[k].saved
      BY <1>2, <1>5, <2>2 DEF RecorderInv, ReadsOK
    <2>3. QED
      BY <2>1, <2>2 DEF ReadsOK
  <1>8. TurnsOK'
    <2>1. ASSUME NEW j \in Instances, j # i
          PROVE  /\ turn'[j].active =>
                      /\ turn'[j].writes \subseteq Entered(Head(writing'[j]))
                      /\ turn'[j].deletions \cap Head(writing'[j]).known = {}
                 /\ ~turn'[j].active => turn'[j].writes = {}
      BY <1>2, <2>1 DEF RecorderInv, TurnsOK
    <2>2. ~turn'[i].active /\ turn'[i].writes = {}
      BY <1>2, NothingIsTyped
    <2>3. QED
      BY <2>1, <2>2 DEF TurnsOK, Entered
  <1>9. QueuesOK'
    <2>1. ASSUME NEW j \in Instances, j # i PROVE Sorted(writing[j])' /\ GoneSince(writing[j])'
      BY <1>2, <2>1 DEF RecorderInv, QueuesOK, Sorted, GoneSince
    <2>2. QED
      BY <1>4, <2>1 DEF QueuesOK
  <1>10. OneOpening'
    <2>1. PICK f \in [DOMAIN writing'[i] -> DOMAIN writing[i]] :
            /\ \A m, n \in DOMAIN writing'[i] : m < n => f[m] < f[n]
            /\ \A n \in DOMAIN writing'[i] : writing'[i][n] = writing[i][f[n]]
      BY <1>3 DEF Part
    <2>2. ASSUME NEW m \in DOMAIN writing'[i], NEW n \in DOMAIN writing'[i],
                 writing'[i][m].task = Opening, writing'[i][n].task = Opening
          PROVE  m = n
      <3>1. f[m] = f[n]
        BY <2>1, <2>2 DEF RecorderInv, OneOpening
      <3>2. DOMAIN writing[i] \in SUBSET Nat
        <4>1. q \in Seq(Reads)
          BY <1>1 DEF RecorderTypeOK
        <4>2. QED
          BY <4>1
      <3>3. f[m] \in Nat /\ f[n] \in Nat /\ m \in Nat /\ n \in Nat
        BY <1>3, <2>1, <3>2
      <3>4. ~(m < n) /\ ~(n < m)
        BY <2>1, <3>1, <3>3
      <3>5. QED
        BY <3>3, <3>4
    <2>3. \A j \in Instances :
            \A m, n \in DOMAIN reading'[j] :
              reading'[j][m] = Opening /\ reading'[j][n] = Opening => m = n
      BY <1>2 DEF RecorderInv, OneOpening
    <2>4. \A j \in Instances \ {i} :
            \A m, n \in DOMAIN writing'[j] :
              writing'[j][m].task = Opening /\ writing'[j][n].task = Opening => m = n
      BY <1>2 DEF RecorderInv, OneOpening
    <2>5. QED
      BY <2>2, <2>3, <2>4 DEF OneOpening
  <1>11. OpeningsOK'
    <2>1. armed' => phase = "open"
      <3>1. armed' => armed \/ q[1].task = Opening
        BY <1>2, <1>3 DEF ArmAfter
      <3>2. QED
        BY <1>3, <3>1 DEF RecorderInv, OpeningsOK
    <2>2. ASSUME NEW j \in Instances, NEW n \in DOMAIN writing'[j], writing'[j][n].task = Opening
          PROVE  phase = "open" /\ opened /\ j = now
      BY <1>5, <2>2 DEF RecorderInv, OpeningsOK
    <2>3. ASSUME NEW j \in Instances, NEW m \in DOMAIN reading[j], NEW n \in DOMAIN writing'[j],
                 reading[j][m] = Opening
          PROVE  writing'[j][n].task # Opening
      BY <1>5, <2>3 DEF RecorderInv, OpeningsOK
    <2>4. ASSUME NEW j \in Instances, NEW n \in DOMAIN reading[j], reading[j][n] = Opening
          PROVE  phase = "open" /\ opened /\ j = now
      BY <2>4 DEF RecorderInv, OpeningsOK
    <2>5. pending => phase = "open"
      BY DEF RecorderInv, OpeningsOK
    <2>6. QED
      BY <1>2, <2>1, <2>2, <2>3, <2>4, <2>5 DEF OpeningsOK
  <1>12. Alone => Alone'
    <2>1. ~Idle(i) /\ \A j \in Instances \ {i} : Idle(j) <=> Idle(j)'
      BY <1>2 DEF Idle
    <2>2. QED
      BY <1>2, <2>1 DEF Alone
  <1>13. NotBehind => NotBehind'
    <2> SUFFICES ASSUME NotBehind PROVE NotBehind'
      OBVIOUS
    <2>1. ASSUME NEW j \in Instances, NEW n \in DOMAIN writing'[j]
          PROVE  Ahead(writing[j][n].configs)' /\ DeletedSince(writing[j][n].known)'
      BY <1>2, <1>5, <2>1 DEF NotBehind, Ahead, DeletedSince
    <2>2. ASSUME NEW j \in Instances, walk'[j].active PROVE Ahead(walk[j].configs)'
      BY <1>2, <2>2 DEF NotBehind, Ahead
    <2>3. QED
      BY <2>1, <2>2 DEF NotBehind
  <1>14. QED
    BY <1>1, <1>2, <1>6, <1>7, <1>8, <1>9, <1>10, <1>11, <1>12, <1>13 DEF RecorderInv

(* Only where two recorders were at work is there a job whose task is gone. *)
LEMMA LooseJobStep ==
  ASSUME RecorderInv, NEW job \in loose, LooseJob(job)
  PROVE  RecorderInv' /\ overlapped
  <1>1. RecorderTypeOK /\ RecorderTypeOK'
    BY RestIsTyped DEF RecorderInv
  <1>2. /\ UNCHANGED <<live, clock, phase, now, opened, armed, pending, reading, walk, writing,
                       turn, overlapped>>
        /\ loose' \subseteq loose
    BY DEF LooseJob, harness, entry, queues
  <1>3. overlapped
    BY DEF RecorderInv, Alone
  <1>4. HeadOK'
    <2>1. job.key \in Keys
      BY <1>1 DEF RecorderTypeOK
    <2>2. CASE head' = head
      BY <1>2, <2>2 DEF RecorderInv, HeadOK
    <2>3. CASE ~job.deletes /\ RecordState(job.key, job.at)
      <3>1. job.at # 0 /\ job.at <= live[job.key].saved
        BY <2>3 DEF RecorderInv, LooseOK
      <3>2. /\ \A d \in Keys \ {job.key} : head'[d] = head[d]
            /\ head'[job.key].at = job.at
        BY <1>1, <2>1, <2>3 DEF RecordState, RecorderTypeOK
      <3>3. QED
        BY <1>2, <3>1, <3>2 DEF RecorderInv, HeadOK
    <2>4. CASE RecordDeletion(job.key)
      <3> DEFINE new == [head[job.key] EXCEPT !.is = IF @ = "saved" THEN "deleted" ELSE @]
      <3>1. head[job.key] \in [at : Stamps, is : {"never", "saved", "deleted", "forgotten"}]
        BY <1>1, <2>1 DEF RecorderTypeOK
      <3>2. new.at = head[job.key].at /\ new.is # "saved"
            /\ (new.is # "forgotten" => head[job.key].is # "forgotten")
        BY <3>1
      <3>3. head' = [head EXCEPT ![job.key] = new]
        BY <1>1, <2>1, <2>4 DEF RecordDeletion, RecorderTypeOK
      <3> HIDE DEF new
      <3>4. /\ \A d \in Keys \ {job.key} : head'[d] = head[d]
            /\ head'[job.key] = new
        BY <1>1, <2>1, <3>3 DEF RecorderTypeOK
      <3>5. QED
        BY <1>2, <3>2, <3>4 DEF RecorderInv, HeadOK
    <2>5. QED
      BY <2>2, <2>3, <2>4 DEF LooseJob
  <1>5. LooseOK' /\ TurnsOK'
    BY <1>2 DEF RecorderInv, LooseOK, TurnsOK, Entered
  <1>6. (MomentsOK /\ ReadsOK /\ QueuesOK /\ OneOpening /\ OpeningsOK)'
    BY <1>2, RecordingKeeps
  <1>7. QED
    BY <1>1, <1>2, <1>3, <1>4, <1>5, <1>6 DEF RecorderInv

LEMMA ForgetStep ==
  ASSUME RecorderInv, Forget
  PROVE  RecorderInv'
  <1>1. RecorderTypeOK /\ RecorderTypeOK'
    BY RestIsTyped DEF RecorderInv
  <1>2. UNCHANGED <<live, clock, phase, now, opened, armed, pending, reading, walk, writing,
                    turn, loose, overlapped>>
    BY DEF Forget, harness, entry, queues
  <1>3. \A d \in Keys : head'[d] = head[d] \/ head'[d].is = "forgotten"
    BY <1>1 DEF Forget, RecorderTypeOK
  <1>4. HeadOK' /\ LooseOK' /\ TurnsOK'
    BY <1>2, <1>3 DEF RecorderInv, HeadOK, LooseOK, TurnsOK, Entered
  <1>5. NotBehind => NotBehind'
    BY <1>2, <1>3 DEF NotBehind, Ahead, DeletedSince
  <1>6. (MomentsOK /\ ReadsOK /\ QueuesOK /\ OneOpening /\ OpeningsOK)' /\ (Alone => Alone')
    BY <1>2, RecordingKeeps, QuietKeeps
  <1>7. QED
    BY <1>1, <1>2, <1>4, <1>5, <1>6 DEF RecorderInv

(* A step that leaves alone all that the invariant speaks of.              *)
LEMMA NothingMoves ==
  ASSUME RecorderInv, RecorderTypeOK',
         UNCHANGED <<live, clock, head, phase, now, opened, armed, pending, reading, walk,
                     writing, turn, loose, overlapped>>
  PROVE  RecorderInv'
  <1>1. HeadOK' /\ LooseOK' /\ TurnsOK'
    BY DEF RecorderInv, HeadOK, LooseOK, TurnsOK, Entered
  <1>2. NotBehind => NotBehind'
    BY DEF NotBehind, Ahead, DeletedSince
  <1>3. (MomentsOK /\ ReadsOK /\ QueuesOK /\ OneOpening /\ OpeningsOK)' /\ (Alone => Alone')
    BY RecordingKeeps, QuietKeeps
  <1>4. QED
    BY <1>1, <1>2, <1>3 DEF RecorderInv

LEMMA ConfirmForgetStep ==
  ASSUME RecorderInv, NEW k \in Keys, ConfirmForget(k)
  PROVE  RecorderInv'
  <1>1. RecorderTypeOK'
    BY RestIsTyped DEF RecorderInv
  <1>2. QED
    BY <1>1, NothingMoves DEF ConfirmForget, harness, entry, queues

--------------------------------------------------------------------------------
(* The theorems                                                            *)

LEMMA InitIsTyped ==
  ASSUME Init
  PROVE  RecorderTypeOK
  <1>1. /\ live \in [Keys -> [is : {"gone", "unsaved", "saved"}, saved : Stamps, gone : Stamps]]
        /\ clock \in Stamps
    <2>1. 0 \in Stamps /\ 1 \in Stamps
      BY ClockAssumption DEF Stamps
    <2>2. QED
      BY <2>1 DEF Init
  <1>2. head \in [Keys -> [at : Stamps, is : {"never", "saved", "deleted", "forgotten"}]]
    BY ClockAssumption DEF Init, Stamps
  <1>3. 1 \in Instances
    BY InstancesAssumption DEF Instances
  <1>4. reading \in [Instances -> Seq(Tasks)] /\ writing \in [Instances -> Seq(Reads)]
    BY DEF Init
  <1>5. /\ phase = "down" /\ now = 1 /\ {opened, armed, pending, overlapped} \subseteq BOOLEAN
        /\ behind = {} /\ loose = {} /\ forgetting = NoKey
        /\ walk = [i \in Instances |-> NoWalk] /\ turn = [i \in Instances |-> NoTurn]
    BY DEF Init
  <1>6. QED
    BY <1>1, <1>2, <1>3, <1>4, <1>5, NothingIsTyped DEF RecorderTypeOK

LEMMA InitIsGood ==
  ASSUME Init
  PROVE  RecorderInv
  <1>1. RecorderTypeOK
    BY InitIsTyped
  <1>2. /\ \A i \in Instances : reading[i] = <<>> /\ writing[i] = <<>> /\ walk[i] = NoWalk
                                /\ turn[i] = NoTurn
        /\ \A k \in Keys : head[k].at = 0 /\ head[k].is = "never"
        /\ \A k \in Keys : /\ live[k].saved \in {0, 1} /\ live[k].gone = 0
                           /\ live[k].is = "gone" => live[k].saved = 0
        /\ clock = 1 /\ loose = {} /\ phase = "down" /\ armed = FALSE /\ pending = FALSE
    BY DEF Init
  <1>3. DOMAIN <<>> = {} /\ \A k \in Keys : NoWalk.configs[k] = 0
    BY DEF NoWalk
  <1>4. MomentsOK /\ HeadOK /\ LooseOK
    BY <1>2 DEF MomentsOK, HeadOK, LooseOK
  <1>5. ReadsOK /\ TurnsOK /\ QueuesOK
    BY <1>2, <1>3, NothingIsTyped DEF ReadsOK, Read, TurnsOK, QueuesOK, Sorted, GoneSince
  <1>6. OneOpening /\ OpeningsOK
    BY <1>2, <1>3 DEF OneOpening, OpeningsOK
  <1>7. Alone /\ NotBehind
    BY <1>2, <1>3, NothingIsTyped DEF Alone, Idle, NotBehind
  <1>8. QED
    BY <1>1, <1>4, <1>5, <1>6, <1>7 DEF RecorderInv

LEMMA EveryStep ==
  ASSUME RecorderInv, [Next]_vars
  PROVE  RecorderInv'
  <1>1. CASE Changing
    BY <1>1, ChangingStep
  <1>2. CASE Setup
    BY <1>2, SetupStep
  <1>3. CASE OpeningPass \/ ReconcileDue
    BY <1>3, CapturePassStep
  <1>4. CASE Unload
    BY <1>4, UnloadStep
  <1>5. CASE Restart
    BY <1>5, RestartStep
  <1>6. ASSUME NEW i \in Instances, Working(i) PROVE RecorderInv'
    <2>1. CASE BeginRead(i)
      BY <2>1, BeginReadStep
    <2>2. CASE \E k \in Keys : Load(i, k)
      BY <2>2, LoadStep
    <2>3. CASE ReadBreaks(i)
      BY <2>3, ReadBreaksStep
    <2>4. CASE BeginWrite(i)
      BY <2>4, BeginWriteStep
    <2>5. CASE \E k \in Keys : MarkDeleted(i, k) \/ WriteOne(i, k)
      BY <2>5, MarkDeletedStep, WriteOneStep
    <2>6. CASE EndWrite(i)
      BY <2>6, EndWriteStep
    <2>7. QED
      BY <1>6, <2>1, <2>2, <2>3, <2>4, <2>5, <2>6 DEF Working
  <1>7. CASE \E job \in loose : LooseJob(job)
    BY <1>7, LooseJobStep
  <1>8. CASE Forget
    BY <1>8, ForgetStep
  <1>9. CASE \E k \in Keys : ConfirmForget(k)
    BY <1>9, ConfirmForgetStep
  <1>10. CASE UNCHANGED vars
    <2>1. UNCHANGED <<live, clock, head, phase, now, opened, armed, pending, reading, walk,
                      writing, turn, loose, forgetting, behind, overlapped>>
      BY <1>10 DEF vars, harness, entry, queues
    <2>2. RecorderTypeOK'
      BY <2>1 DEF RecorderInv, RecorderTypeOK
    <2>3. QED
      BY <2>1, <2>2, NothingMoves
  <1>11. QED
    BY <1>1, <1>2, <1>3, <1>4, <1>5, <1>6, <1>7, <1>8, <1>9, <1>10 DEF Next

(* Of every dashboard, what was saved, what was recorded and what was read *)
(* and waits to be written are in the order of the saves, in every         *)
(* reachable state of the recorder (capture.py: async_capture,             *)
(* _async_read, _async_write).                                             *)
THEOREM RecorderInvariant == Spec => []RecorderInv
  <1>1. Init => RecorderInv
    BY InitIsGood
  <1>2. RecorderInv /\ [Next]_vars => RecorderInv'
    BY EveryStep
  <1>3. QED
    BY <1>1, <1>2, PTL DEF Spec

(* The recorder's variables keep their types; a read is under way only     *)
(* where one is asked for, and a turn at writing only where one waits.     *)
THEOREM RecorderTypeCorrect == Spec => []RecorderTypeOK
  <1>1. RecorderInv => RecorderTypeOK
    BY DEF RecorderInv
  <1>2. QED
    BY <1>1, RecorderInvariant, PTL

(* The entries of one dashboard change only where a state, a deletion or a *)
(* forget of it is recorded.                                               *)
LEMMA HeadMoves ==
  ASSUME RecorderInv, [Next]_vars, NEW d \in Keys, ~overlapped, head'[d] # head[d]
  PROVE  \/ \E i \in Instances : WriteOne(i, d) \/ MarkDeleted(i, d)
         \/ head'[d].is = "forgotten"
  <1>1. CASE Changing
    BY <1>1 DEF Changing, Save, Create, Delete, EditOutside, PanelMoved
  <1>2. CASE Setup \/ OpeningPass \/ ReconcileDue \/ Unload \/ Restart
    BY <1>2 DEF Setup, OpeningPass, ReconcileDue, Unload, Restart
  <1>3. ASSUME NEW i \in Instances, Working(i) PROVE WriteOne(i, d) \/ MarkDeleted(i, d)
    <2>1. CASE \E k \in Keys : MarkDeleted(i, k) \/ WriteOne(i, k)
      <3>1. PICK k \in Keys : MarkDeleted(i, k) \/ WriteOne(i, k)
        BY <2>1
      <3>2. k = d
        BY <3>1, MarkDeletedFacts, WriteOneFacts DEF RecorderInv
      <3>3. QED
        BY <3>1, <3>2
    <2>2. CASE BeginRead(i) \/ (\E k \in Keys : Load(i, k)) \/ ReadBreaks(i)
      BY <2>2 DEF BeginRead, Load, ReadBreaks
    <2>3. CASE BeginWrite(i) \/ EndWrite(i)
      BY <2>3 DEF BeginWrite, EndWrite
    <2>4. QED
      BY <1>3, <2>1, <2>2, <2>3 DEF Working
  <1>4. CASE \E job \in loose : LooseJob(job)
    BY <1>4, LooseJobStep
  <1>5. CASE Forget
    BY <1>5 DEF Forget, RecorderInv, RecorderTypeOK
  <1>6. CASE \E k \in Keys : ConfirmForget(k)
    BY <1>6 DEF ConfirmForget
  <1>7. CASE UNCHANGED vars
    BY <1>7 DEF vars
  <1>8. QED
    BY <1>1, <1>2, <1>3, <1>4, <1>5, <1>6, <1>7 DEF Next

(* With one recorder at work, no state of a dashboard is recorded after    *)
(* one that was saved later: saves, reads that wait, reads that break,     *)
(* failed writes and restarts leave the history in the order of the saves  *)
(* (capture.py:51-58).                                                     *)
THEOREM StatesAreRecordedInOrder == Spec => RecordedInOrder
  <1>1. ASSUME RecorderInv, [Next]_vars
        PROVE  [\A k \in Keys : overlapped \/ head[k].is = "forgotten" \/ Newer(k)]_vars
    <2> SUFFICES ASSUME NEW k \in Keys, ~overlapped, head[k].is # "forgotten",
                        head'[k].is = "saved"
                 PROVE  head'[k].at >= head[k].at
      BY DEF Newer
    <2>1. head[k].at \in Nat
      BY <1>1, MomentsAreNaturals DEF RecorderInv
    <2>2. CASE head'[k] = head[k]
      BY <2>1, <2>2
    <2>3. ASSUME NEW i \in Instances, WriteOne(i, k) PROVE head'[k].at >= head[k].at
      <3> DEFINE at == writing[i][1].configs[k]
      <3>1. /\ 1 \in DOMAIN writing[i] /\ at # 0
            /\ head'[k] \in {head[k], [at |-> at, is |-> "saved"]}
        BY <1>1, <2>3, WriteOneFacts
      <3>2. head[k].at <= at /\ at \in Nat
        BY <1>1, <3>1, MomentsAreNaturals DEF RecorderInv, NotBehind, Ahead
      <3>3. QED
        BY <2>1, <3>1, <3>2
    <2>4. ASSUME NEW i \in Instances, MarkDeleted(i, k) PROVE head'[k].at >= head[k].at
      BY <1>1, <2>1, <2>4, MarkDeletedFacts DEF RecorderInv
    <2>5. QED
      BY <1>1, <2>2, <2>3, <2>4, HeadMoves
  <1>2. RecorderInv /\ [Next]_vars => [\A k \in Keys : overlapped \/ head[k].is = "forgotten" \/ Newer(k)]_vars
    BY <1>1
  <1>3. QED
    BY <1>2, RecorderInvariant, PTL DEF Spec, RecordedInOrder

(* With one recorder at work, an entry says that a dashboard was deleted   *)
(* only where Home Assistant dropped it after the state before the entry   *)
(* was saved (capture.py:314-316), however long the pass that found it     *)
(* missing waited to write.                                                *)
THEOREM RecordedDeletionsAreReal == Spec => DeletionsAreReal
  <1>1. ASSUME RecorderInv, [Next]_vars
        PROVE  [\A k \in Keys : overlapped \/ DroppedSince(k)]_vars
    <2> SUFFICES ASSUME NEW k \in Keys, ~overlapped, head[k].is = "saved",
                        head'[k].is = "deleted"
                 PROVE  live[k].gone > head[k].at
      BY DEF DroppedSince
    <2>1. head[k].at \in Nat /\ live[k].gone \in Nat
      BY <1>1, MomentsAreNaturals DEF RecorderInv
    <2>2. PICK i \in Instances : WriteOne(i, k) \/ MarkDeleted(i, k)
      BY <1>1, HeadMoves
    <2>3. MarkDeleted(i, k)
      <3>1. WriteOne(i, k) => head'[k].is = "saved"
        BY <1>1, WriteOneFacts
      <3>2. QED
        BY <2>2, <3>1
    <2>4. turn[i].active /\ k \in turn[i].deletions
      BY <2>3 DEF MarkDeleted
    <2>5. writing[i] # <<>> /\ Head(writing[i]) = writing[i][1] /\ 1 \in DOMAIN writing[i]
      <3>1. writing[i] \in Seq(Reads) /\ writing[i] # <<>>
        BY <1>1, <2>4 DEF RecorderInv, RecorderTypeOK
      <3>2. QED
        BY <3>1, TailIsPart
    <2>6. k \notin writing[i][1].known
      BY <1>1, <2>4, <2>5 DEF RecorderInv, TurnsOK
    <2>7. head[k].at < live[k].gone
      BY <1>1, <2>5, <2>6 DEF RecorderInv, NotBehind, DeletedSince
    <2>8. QED
      BY <2>1, <2>7
  <1>2. RecorderInv /\ [Next]_vars => [\A k \in Keys : overlapped \/ DroppedSince(k)]_vars
    BY <1>1
  <1>3. QED
    BY <1>2, RecorderInvariant, PTL DEF Spec, DeletionsAreReal

================================================================================
