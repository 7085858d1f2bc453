--------------------------- MODULE OperationsProofs ----------------------------
(***************************************************************************)
(* Theorems about Operations, for any cards and ways they may look, any    *)
(* number of callers, changes and captures.                                *)
(***************************************************************************)
EXTENDS Operations, SequenceTheorems, TLAPS

--------------------------------------------------------------------------------
(* The invariant                                                           *)

Shown(state) == IF state \in Config THEN state ELSE Empty

(* What was read since the last change is what is live, and captures read  *)
(* in the order they were asked for.                                       *)
QueueOK ==
  /\ \A i \in DOMAIN captures :
       captures[i].read # Unread /\ captures[i].at = changes => captures[i].read = live
  /\ \A i, j \in DOMAIN captures : i < j /\ captures[j].read # Unread =>
       captures[i].read # Unread /\ captures[i].at <= captures[j].at

(* Nobody has changed the dashboard since the operation took note of it.   *)
UpToDate(o) == op[o].known = changes

(* What would be written is what was seen, but for the cards it is about.  *)
PlanOK(o) ==
  /\ op[o].at \in {"creating", "naming", "comparing"} => op[o].kind = "state"
  /\ op[o].at \notin {"idle", "answering"} /\ op[o].kind # "record" =>
       \A c \in Cards \ op[o].touched : op[o].result[c] = Shown(op[o].seen)[c]
  /\ op[o].kind = "state" => op[o].touched = Cards
  /\ op[o].at \in {"idle", "creating", "previewed"} => ~op[o].kept
  /\ op[o].at \in {"creating", "previewed", "saving"} => op[o].kind # "record"

(* Where the operation still rests on what it saw, that is what is live.   *)
RestsOnSeen(o) ==
  \/ op[o].at = "previewed"
  \/ op[o].at = "keeping" /\ ~op[o].kept /\ op[o].kind # "record"
  \/ op[o].at = "answering"
  \/ op[o].at = "saving" /\ op[o].kind # "state" /\ ~op[o].lost

SeenOK(o) == RestsOnSeen(o) /\ UpToDate(o) => live = op[o].seen

(* Once its capture has been written, the captures behind it read no       *)
(* earlier, and what is live is the newest entry.                          *)
KeptOK(o) ==
  op[o].at \in {"keeping", "answering"} /\ op[o].kept =>
    /\ \A i \in DOMAIN captures : captures[i].read # Unread => captures[i].at >= op[o].known
    /\ UpToDate(o) => live \in Config /\ Newest = live

(* Past the check, what is live is an entry.                               *)
RecordedOK(o) ==
  op[o].at \in {"naming", "comparing", "saving"} /\ ~op[o].lost /\ UpToDate(o) /\ live \in Config
    => live \in Recorded

(* A version is of an entry, and of what is live.                          *)
MarkedOK(o) ==
  /\ op[o].at \in {"creating", "previewed", "keeping", "naming"} => op[o].marked = Unread
  /\ op[o].at = "comparing" => op[o].marked \in Recorded \cup {Gone}
  /\ op[o].at = "saving" /\ op[o].marked # Unread /\ UpToDate(o) /\ live \in Config
       => op[o].marked = live

CallerOK(o) == PlanOK(o) /\ SeenOK(o) /\ KeptOK(o) /\ RecordedOK(o) /\ MarkedOK(o)

OperationsInv == OperationsTypeOK /\ QueueOK /\ \A o \in Ops : CallerOK(o)

--------------------------------------------------------------------------------
(* Queues, entries and the data                                            *)

LEMMA AppendFacts ==
  ASSUME NEW S, NEW q \in Seq(S), NEW e \in S
  PROVE  /\ Append(q, e) \in Seq(S)
         /\ Len(q) \in Nat /\ DOMAIN q = 1 .. Len(q)
         /\ DOMAIN Append(q, e) = 1 .. Len(q) + 1 /\ Len(Append(q, e)) = Len(q) + 1
         /\ \A n \in DOMAIN q : Append(q, e)[n] = q[n]
         /\ Append(q, e)[Len(q) + 1] = e
  OBVIOUS

LEMMA TailFacts ==
  ASSUME NEW S, NEW q \in Seq(S), q # <<>>
  PROVE  /\ Tail(q) \in Seq(S) /\ Len(q) \in Nat \ {0} /\ DOMAIN q = 1 .. Len(q)
         /\ Head(q) = q[1] /\ 1 \in DOMAIN q
         /\ DOMAIN Tail(q) = 1 .. Len(q) - 1
         /\ \A n \in DOMAIN Tail(q) : n + 1 \in DOMAIN q /\ Tail(q)[n] = q[n + 1]
  OBVIOUS

LEMMA DataFacts ==
  /\ Empty \in Config /\ Gone \notin Config /\ Unsaved \notin Config /\ Unread \notin States
  /\ \A state : Shown(state) \in Config
  /\ Idle \in Operation /\ Idle.at = "idle" /\ Idle.kept = FALSE /\ Idle.kind = "none"
  /\ Idle.known = 0 /\ Idle.lost = FALSE
  <1>1. Empty \in Config
    BY DEF Empty, Config
  <1>2. Gone \notin Config /\ Unsaved \notin Config /\ Unread \notin States
    BY ValuesAssumption, MarkersAssumption DEF States
  <1>3. Idle \in Operation
    BY <1>1 DEF Idle, Operation, States
  <1>4. QED
    BY <1>1, <1>2, <1>3 DEF Shown, Idle

(* An entry, once there, stays, and what is appended is the newest.        *)
LEMMA EntryFacts ==
  ASSUME OperationsTypeOK
  PROVE  /\ Newest \in Recorded \cup {Gone} /\ Recorded \subseteq Config \cup {Gone}
         /\ \A state \in Config \cup {Gone} : history' = Append(history, state) =>
              /\ history' \in Seq(Config \cup {Gone})
              /\ Newest' = state /\ Recorded' = Recorded \cup {state}
         /\ history' = history => Newest' = Newest /\ Recorded' = Recorded
  <1>1. history \in Seq(Config \cup {Gone})
    BY DEF OperationsTypeOK
  <1>2. Newest \in Recorded \cup {Gone}
    BY <1>1 DEF Newest, Recorded, Range
  <1>3. Recorded \subseteq Config \cup {Gone}
    BY <1>1 DEF Recorded, Range
  <1>4. ASSUME NEW state \in Config \cup {Gone}, history' = Append(history, state)
        PROVE  /\ history' \in Seq(Config \cup {Gone})
               /\ Newest' = state /\ Recorded' = Recorded \cup {state}
    <2>1. /\ history' \in Seq(Config \cup {Gone}) /\ Len(history) \in Nat
          /\ DOMAIN history = 1 .. Len(history)
          /\ DOMAIN history' = 1 .. Len(history) + 1 /\ Len(history') = Len(history) + 1
          /\ \A n \in DOMAIN history : history'[n] = history[n]
          /\ history'[Len(history) + 1] = state
      BY <1>1, <1>4, AppendFacts
    <2>2. Newest' = state
      BY <2>1 DEF Newest
    <2>3. Recorded' = Recorded \cup {state}
      BY <2>1 DEF Recorded, Range
    <2>4. QED
      BY <2>1, <2>2, <2>3
  <1>5. history' = history => Newest' = Newest /\ Recorded' = Recorded
    BY DEF Newest, Recorded
  <1>6. QED
    BY <1>2, <1>3, <1>4, <1>5

(* What a capture that is written does to the entries.                     *)
LEMMA EntersFacts ==
  ASSUME OperationsTypeOK, NEW capture \in Captures, capture.read # Unread, Enters(capture)
  PROVE  /\ history' \in Seq(Config \cup {Gone}) /\ Recorded \subseteq Recorded'
         /\ capture.read \in Config => Newest' = capture.read /\ capture.read \in Recorded'
  <1>1. CASE capture.read \in Config
    <2>1. history' = IF capture.read = Newest THEN history ELSE Append(history, capture.read)
      BY <1>1, DataFacts DEF Enters
    <2>2. CASE capture.read = Newest
      <3>1. history' = history /\ Newest # Gone
        BY <1>1, <2>1, <2>2, DataFacts
      <3>2. QED
        BY <2>2, <3>1, EntryFacts DEF OperationsTypeOK
    <2>3. CASE capture.read # Newest
      BY <1>1, <2>1, <2>3, EntryFacts
    <2>4. QED
      BY <2>2, <2>3
  <1>2. CASE capture.read \notin Config
    <2>1. history' = history \/ history' = Append(history, Gone)
      BY <1>2 DEF Enters
    <2>2. QED
      BY <1>2, <2>1, EntryFacts DEF OperationsTypeOK
  <1>3. QED
    BY <1>1, <1>2

--------------------------------------------------------------------------------
(* The queue                                                               *)

(* Who is in the queue when somebody is added to it, or the first leaves.  *)
LEMMA AskFacts ==
  ASSUME OperationsTypeOK, NEW by \in Ops \cup {Listener, Pass}, Ask(by)
  PROVE  /\ captures' \in Seq(Captures)
         /\ Len(captures) \in Nat /\ DOMAIN captures = 1 .. Len(captures)
         /\ DOMAIN captures' = 1 .. Len(captures) + 1
         /\ \A i \in DOMAIN captures : captures'[i] = captures[i]
         /\ captures'[Len(captures) + 1].read = Unread /\ captures'[Len(captures) + 1].at = 0
         /\ \A o \in Ops : Asked(o)' => Asked(o) \/ o = by
  <1> DEFINE new == [by |-> by, read |-> Unread, at |-> 0]
  <1>1. new \in Captures /\ captures \in Seq(Captures) /\ captures' = Append(captures, new)
    BY DEF Ask, Captures, OperationsTypeOK
  <1>2. new.by = by /\ new.read = Unread /\ new.at = 0
    OBVIOUS
  <1> HIDE DEF new
  <1>3. /\ captures' \in Seq(Captures)
        /\ Len(captures) \in Nat /\ DOMAIN captures = 1 .. Len(captures)
        /\ DOMAIN captures' = 1 .. Len(captures) + 1
        /\ \A i \in DOMAIN captures : captures'[i] = captures[i]
        /\ captures'[Len(captures) + 1] = new
    BY <1>1, AppendFacts
  <1>4. \A i \in DOMAIN captures' : i \in DOMAIN captures \/ i = Len(captures) + 1
    BY <1>3
  <1>5. \A o \in Ops : Asked(o)' => Asked(o) \/ o = by
    BY <1>2, <1>3, <1>4 DEF Asked
  <1>6. QED
    BY <1>2, <1>3, <1>5

LEMMA LeaveFacts ==
  ASSUME OperationsTypeOK, captures # <<>>, captures' = Tail(captures)
  PROVE  /\ captures' \in Seq(Captures) /\ Head(captures) = captures[1] /\ 1 \in DOMAIN captures
         /\ Head(captures) \in Captures
         /\ Len(captures) \in Nat \ {0} /\ DOMAIN captures = 1 .. Len(captures)
         /\ DOMAIN captures' = 1 .. Len(captures) - 1
         /\ \A i \in DOMAIN captures' : i + 1 \in DOMAIN captures /\ captures'[i] = captures[i + 1]
         /\ \A o \in Ops : Asked(o)' => Asked(o)
         /\ \A o \in Ops : Head(captures).by = o => Asked(o)
  <1>1. captures \in Seq(Captures)
    BY DEF OperationsTypeOK
  <1>2. /\ captures' \in Seq(Captures) /\ Head(captures) = captures[1] /\ 1 \in DOMAIN captures
        /\ Len(captures) \in Nat \ {0} /\ DOMAIN captures = 1 .. Len(captures)
        /\ DOMAIN captures' = 1 .. Len(captures) - 1
        /\ \A i \in DOMAIN captures' : i + 1 \in DOMAIN captures /\ captures'[i] = captures[i + 1]
    BY <1>1, TailFacts
  <1>3. Head(captures) \in Captures
    BY <1>1, <1>2
  <1>4. \A o \in Ops : Asked(o)' => Asked(o)
    BY <1>2 DEF Asked
  <1>5. QED
    BY <1>2, <1>3, <1>4 DEF Asked

(* Reading a capture changes nothing but that capture.                     *)
LEMMA ReadFacts ==
  ASSUME OperationsTypeOK, NEW i \in DOMAIN captures, Read(i)
  PROVE  /\ captures' \in Seq(Captures) /\ DOMAIN captures' = DOMAIN captures
         /\ captures'[i].read = live /\ captures'[i].at = changes /\ captures'[i].by = captures[i].by
         /\ \A j \in DOMAIN captures \ {i} : captures'[j] = captures[j]
         /\ \A o \in Ops : Asked(o)' => Asked(o)
  <1>1. /\ captures \in Seq(Captures) /\ captures[i] \in Captures
        /\ live \in States /\ changes \in Nat
    BY DEF OperationsTypeOK
  <1> DEFINE new == [captures[i] EXCEPT !.read = live, !.at = changes]
  <1>2. /\ new \in Captures /\ new.read = live /\ new.at = changes /\ new.by = captures[i].by
    BY <1>1 DEF Captures
  <1>3. captures' = [captures EXCEPT ![i] = new]
    BY <1>1 DEF Read
  <1> HIDE DEF new
  <1>4. /\ captures' \in Seq(Captures) /\ DOMAIN captures' = DOMAIN captures
        /\ captures'[i] = new /\ \A j \in DOMAIN captures \ {i} : captures'[j] = captures[j]
    BY <1>1, <1>2, <1>3
  <1>5. \A o \in Ops : Asked(o)' => Asked(o)
    BY <1>2, <1>4 DEF Asked
  <1>6. QED
    BY <1>2, <1>4, <1>5

--------------------------------------------------------------------------------
(* What others may do beside a caller                                      *)

(* The queue keeps its places, and who joins it has read nothing.          *)
Grows ==
  /\ DOMAIN captures \subseteq DOMAIN captures' /\ DOMAIN captures' \subseteq Nat
  /\ \A i \in DOMAIN captures : captures'[i] = captures[i]
  /\ \A i \in DOMAIN captures' : captures'[i].read # Unread => i \in DOMAIN captures
  /\ \A i \in DOMAIN captures', j \in DOMAIN captures : i < j => i \in DOMAIN captures

LEMMA QueueGrows ==
  ASSUME OperationsTypeOK,
         captures' = captures \/ \E by \in Ops \cup {Listener, Pass} : Ask(by)
  PROVE  Grows
  <1>1. CASE captures' = captures
    <2>1. captures \in Seq(Captures)
      BY DEF OperationsTypeOK
    <2>2. QED
      BY <1>1, <2>1 DEF Grows
  <1>2. ASSUME NEW by \in Ops \cup {Listener, Pass}, Ask(by) PROVE Grows
    <2>1. /\ Len(captures) \in Nat /\ DOMAIN captures = 1 .. Len(captures)
          /\ DOMAIN captures' = 1 .. Len(captures) + 1
          /\ \A i \in DOMAIN captures : captures'[i] = captures[i]
          /\ captures'[Len(captures) + 1].read = Unread
      BY <1>2, AskFacts
    <2>2. QED
      BY <2>1 DEF Grows
  <1>3. QED
    BY <1>1, <1>2

LEMMA AskedInTime ==
  ASSUME OperationsTypeOK, changes' \in {changes, changes + 1},
         captures' = captures \/ \E by \in Ops \cup {Listener, Pass} : Ask(by)
  PROVE  \A i \in DOMAIN captures' : captures'[i].at <= changes'
  <1>1. /\ changes \in Nat
        /\ \A i \in DOMAIN captures : captures[i].at \in Nat /\ captures[i].at <= changes
    <2>1. \A i \in DOMAIN captures : captures[i] \in Captures
      BY ElementOfSeq DEF OperationsTypeOK
    <2>2. QED
      BY <2>1 DEF OperationsTypeOK, Captures
  <1>2. CASE captures' = captures
    BY <1>1, <1>2
  <1>3. ASSUME NEW by \in Ops \cup {Listener, Pass}, Ask(by)
        PROVE  \A i \in DOMAIN captures' : captures'[i].at <= changes'
    <2>1. /\ Len(captures) \in Nat /\ DOMAIN captures = 1 .. Len(captures)
          /\ DOMAIN captures' = 1 .. Len(captures) + 1
          /\ \A i \in DOMAIN captures : captures'[i] = captures[i]
          /\ captures'[Len(captures) + 1].at = 0
      BY <1>3, AskFacts
    <2>2. QED
      BY <1>1, <2>1
  <1>4. QED
    BY <1>2, <1>3

(* Somebody changes the dashboard: nobody is up to date any more.          *)
LEMMA ChangeKeeps ==
  ASSUME OperationsTypeOK, QueueOK, changes' = changes + 1, history' = history,
         captures' = captures \/ \E by \in Ops \cup {Listener, Pass} : Ask(by)
  PROVE  /\ QueueOK'
         /\ \A o \in Ops : op'[o] = op[o] /\ CallerOK(o) => CallerOK(o)'
  <1>1. /\ changes \in Nat /\ \A o \in Ops : op[o].known \in Nat /\ op[o].known <= changes
        /\ \A i \in DOMAIN captures : captures[i].at \in Nat /\ captures[i].at <= changes
    <2>1. \A i \in DOMAIN captures : captures[i] \in Captures
      BY ElementOfSeq DEF OperationsTypeOK
    <2>2. QED
      BY <2>1 DEF OperationsTypeOK, Operation, Captures
  <1>2. Grows
    BY QueueGrows
  <1>3. QueueOK'
    BY <1>1, <1>2 DEF QueueOK, Grows
  <1>4. ASSUME NEW o \in Ops, op'[o] = op[o], CallerOK(o) PROVE CallerOK(o)'
    <2>1. ~UpToDate(o)'
      BY <1>1, <1>4 DEF UpToDate
    <2>2. PlanOK(o)'
      BY <1>4 DEF CallerOK, PlanOK
    <2>3. KeptOK(o)'
      BY <1>2, <1>4, <2>1 DEF CallerOK, KeptOK, Grows
    <2>4. MarkedOK(o)'
      BY <1>4, <2>1 DEF CallerOK, MarkedOK, Recorded
    <2>5. QED
      BY <2>1, <2>2, <2>3, <2>4 DEF CallerOK, SeenOK, RecordedOK
  <1>5. QED
    BY <1>3, <1>4

(* A caller goes on, and perhaps asks for a capture.                       *)
LEMMA QuietKeeps ==
  ASSUME OperationsTypeOK, QueueOK, UNCHANGED <<live, changes, history>>,
         captures' = captures \/ \E by \in Ops \cup {Listener, Pass} : Ask(by)
  PROVE  /\ QueueOK'
         /\ \A o \in Ops : op'[o] = op[o] /\ CallerOK(o) => CallerOK(o)'
  <1>1. Grows
    BY QueueGrows
  <1>2. QueueOK'
    BY <1>1 DEF QueueOK, Grows
  <1>3. ASSUME NEW o \in Ops, op'[o] = op[o], CallerOK(o) PROVE CallerOK(o)'
    <2>1. UpToDate(o)' <=> UpToDate(o)
      BY <1>3 DEF UpToDate
    <2>2. PlanOK(o)' /\ SeenOK(o)'
      BY <1>3, <2>1 DEF CallerOK, PlanOK, SeenOK, RestsOnSeen
    <2>3. KeptOK(o)'
      BY <1>1, <1>3, <2>1 DEF CallerOK, KeptOK, Grows, Newest
    <2>4. MarkedOK(o)' /\ RecordedOK(o)'
      BY <1>3, <2>1 DEF CallerOK, MarkedOK, RecordedOK, Recorded
    <2>5. QED
      BY <2>2, <2>3, <2>4 DEF CallerOK
  <1>4. QED
    BY <1>2, <1>3

--------------------------------------------------------------------------------
(* The steps of the dashboard and of the recorder                          *)

LEMMA PeopleStep ==
  ASSUME OperationsInv, Save \/ Delete \/ Create
  PROVE  OperationsInv'
  <1>1. OperationsTypeOK /\ QueueOK /\ \A o \in Ops : CallerOK(o)
    BY DEF OperationsInv
  <1>2. UNCHANGED <<asked, history, op>> /\ changes' = changes + 1
    BY DEF Save, Delete, Create, PanelMoves
  <1>3. captures' = captures \/ Ask(Listener)
    BY DEF Save, Delete, Create
  <1>4. live' \in States /\ moved' \in BOOLEAN
    <2>1. CASE Save
      <3>1. live # Gone /\ live \in States
        BY <1>1, <2>1 DEF Save, OperationsTypeOK
      <3> DEFINE now == IF live = Unsaved THEN Empty ELSE live
      <3>2. now \in Config
        BY <3>1, DataFacts DEF States
      <3>3. \E c \in Cards, face \in Faces \cup {Absent} : live' = [now EXCEPT ![c] = face]
        BY <2>1 DEF Save
      <3> HIDE DEF now
      <3>4. live' \in Config
        BY <3>2, <3>3 DEF Config
      <3>5. QED
        BY <1>1, <2>1, <3>4 DEF Save, States, OperationsTypeOK
    <2>2. CASE Delete \/ Create
      BY <2>2 DEF Delete, Create, PanelMoves, States
    <2>3. QED
      BY <2>1, <2>2
  <1>5. captures' \in Seq(Captures) /\ \A o \in Ops : Asked(o)' => Asked(o)
    <2>1. CASE captures' = captures
      BY <1>1, <2>1 DEF OperationsTypeOK, Asked
    <2>2. CASE Ask(Listener)
      BY <1>1, <2>2, AskFacts, ValuesAssumption
    <2>3. QED
      BY <1>3, <2>1, <2>2
  <1>6. \A i \in DOMAIN captures' : captures'[i].at <= changes'
    BY <1>1, <1>2, <1>3, AskedInTime
  <1>7. OperationsTypeOK'
    <2>1. changes \in Nat /\ \A o \in Ops : op[o].known \in Nat
      BY <1>1 DEF OperationsTypeOK, Operation
    <2>2. QED
      BY <1>1, <1>2, <1>4, <1>5, <1>6, <2>1 DEF OperationsTypeOK
  <1>8. QED
    BY <1>1, <1>2, <1>3, <1>7, ChangeKeeps DEF OperationsInv

LEMMA ReconcileStep ==
  ASSUME OperationsInv, Reconcile
  PROVE  OperationsInv'
  <1>1. OperationsTypeOK /\ QueueOK /\ \A o \in Ops : CallerOK(o)
    BY DEF OperationsInv
  <1>2. UNCHANGED <<live, changes, asked, history, op>> /\ moved' = FALSE /\ Ask(Pass)
    BY DEF Reconcile
  <1>3. captures' \in Seq(Captures) /\ \A o \in Ops : Asked(o)' => Asked(o)
    BY <1>1, <1>2, AskFacts, ValuesAssumption
  <1>4. \A i \in DOMAIN captures' : captures'[i].at <= changes'
    BY <1>1, <1>2, AskedInTime
  <1>5. OperationsTypeOK'
    BY <1>1, <1>2, <1>3, <1>4 DEF OperationsTypeOK
  <1>6. QED
    BY <1>1, <1>2, <1>5, QuietKeeps DEF OperationsInv

LEMMA ReadStep ==
  ASSUME OperationsInv, NEW i \in DOMAIN captures, Read(i)
  PROVE  OperationsInv'
  <1>1. OperationsTypeOK /\ QueueOK /\ \A o \in Ops : CallerOK(o)
    BY DEF OperationsInv
  <1>2. /\ UNCHANGED <<live, changes, asked, history, moved, op>>
        /\ captures[i].read = Unread
        /\ \A j \in 1 .. i - 1 : captures[j].read # Unread
    BY DEF Read, Turn
  <1>3. /\ captures' \in Seq(Captures) /\ DOMAIN captures' = DOMAIN captures
        /\ captures'[i].read = live /\ captures'[i].at = changes
        /\ \A j \in DOMAIN captures \ {i} : captures'[j] = captures[j]
        /\ \A o \in Ops : Asked(o)' => Asked(o)
    BY <1>1, ReadFacts
  <1>4. /\ DOMAIN captures \subseteq Nat /\ changes \in Nat
        /\ \A j \in DOMAIN captures : /\ captures[j].at \in Nat /\ captures[j].at <= changes
                                      /\ j < i => j \in 1 .. i - 1
    <2>1. captures \in Seq(Captures) /\ changes \in Nat
      BY <1>1 DEF OperationsTypeOK
    <2>2. \A j \in DOMAIN captures : captures[j] \in Captures
      BY <2>1, ElementOfSeq
    <2>3. DOMAIN captures = 1 .. Len(captures) /\ Len(captures) \in Nat
      BY <2>1
    <2>4. QED
      BY <1>1, <2>1, <2>2, <2>3 DEF OperationsTypeOK, Captures
  <1>5. QueueOK'
    <2>1. ASSUME NEW j \in DOMAIN captures', captures'[j].read # Unread, captures'[j].at = changes
          PROVE  captures'[j].read = live
      BY <1>1, <1>3, <2>1 DEF QueueOK
    <2>2. ASSUME NEW j \in DOMAIN captures', NEW k \in DOMAIN captures', j < k,
                 captures'[k].read # Unread
          PROVE  captures'[j].read # Unread /\ captures'[j].at <= captures'[k].at
      <3>1. CASE k = i
        BY <1>1, <1>2, <1>3, <1>4, <2>2, <3>1
      <3>2. CASE k # i
        <4>1. captures[j].read # Unread /\ captures[j].at <= captures[k].at
          BY <1>1, <1>3, <2>2, <3>2 DEF QueueOK
        <4>2. j # i
          BY <1>2, <4>1
        <4>3. QED
          BY <1>3, <3>2, <4>1, <4>2
      <3>3. QED
        BY <3>1, <3>2
    <2>3. QED
      BY <1>2, <2>1, <2>2 DEF QueueOK
  <1>6. ASSUME NEW o \in Ops PROVE CallerOK(o)'
    <2>1. CallerOK(o) /\ (UpToDate(o)' <=> UpToDate(o)) /\ op[o].known <= changes
      BY <1>1, <1>2 DEF UpToDate, OperationsTypeOK
    <2>2. PlanOK(o)' /\ SeenOK(o)'
      BY <1>2, <2>1 DEF CallerOK, PlanOK, SeenOK, RestsOnSeen
    <2>3. KeptOK(o)'
      BY <1>2, <1>3, <2>1 DEF CallerOK, KeptOK, Newest
    <2>4. RecordedOK(o)' /\ MarkedOK(o)'
      BY <1>2, <2>1 DEF CallerOK, RecordedOK, MarkedOK, Recorded
    <2>5. QED
      BY <2>2, <2>3, <2>4 DEF CallerOK
  <1>7. OperationsTypeOK'
    <2>1. \A j \in DOMAIN captures' : captures'[j].at <= changes
      BY <1>3, <1>4
    <2>2. QED
      BY <1>1, <1>2, <1>3, <2>1 DEF OperationsTypeOK
  <1>8. QED
    BY <1>5, <1>6, <1>7 DEF OperationsInv

(* The first capture leaves the queue.                                     *)
LEMMA LeaveKeeps ==
  ASSUME OperationsTypeOK, QueueOK, captures # <<>>, captures' = Tail(captures),
         UNCHANGED <<live, changes>>
  PROVE  /\ QueueOK'
         /\ \A i \in DOMAIN captures' : captures'[i].at <= changes
         /\ \A i \in DOMAIN captures' : captures'[i].read # Unread =>
              captures'[i].at >= captures[1].at
         /\ \A o \in Ops : (\A i \in DOMAIN captures :
                              captures[i].read # Unread => captures[i].at >= op[o].known)
              => \A i \in DOMAIN captures' :
                   captures'[i].read # Unread => captures'[i].at >= op[o].known
  <1>1. /\ Len(captures) \in Nat \ {0} /\ DOMAIN captures = 1 .. Len(captures)
        /\ DOMAIN captures' = 1 .. Len(captures) - 1
        /\ \A i \in DOMAIN captures' : i + 1 \in DOMAIN captures /\ captures'[i] = captures[i + 1]
    BY LeaveFacts
  <1>2. \A i \in DOMAIN captures : captures[i].at \in Nat /\ captures[i].at <= changes
    <2>1. \A i \in DOMAIN captures : captures[i] \in Captures
      BY ElementOfSeq DEF OperationsTypeOK
    <2>2. QED
      BY <2>1 DEF OperationsTypeOK, Captures
  <1>3. QueueOK'
    BY <1>1 DEF QueueOK
  <1>4. ASSUME NEW i \in DOMAIN captures', captures'[i].read # Unread
        PROVE  captures'[i].at >= captures[1].at
    <2>1. 1 \in DOMAIN captures /\ 1 < i + 1 /\ i + 1 \in DOMAIN captures
      BY <1>1
    <2>2. QED
      BY <1>1, <1>2, <1>4, <2>1 DEF QueueOK
  <1>5. QED
    BY <1>1, <1>2, <1>3, <1>4

LEMMA CaptureFailsStep ==
  ASSUME OperationsInv, CaptureFails
  PROVE  OperationsInv'
  <1>1. OperationsTypeOK /\ QueueOK /\ \A o \in Ops : CallerOK(o)
    BY DEF OperationsInv
  <1>2. /\ UNCHANGED <<live, changes, asked, history, moved, op>>
        /\ captures # <<>> /\ captures' = Tail(captures)
    BY DEF CaptureFails
  <1>3. captures' \in Seq(Captures) /\ \A o \in Ops : Asked(o)' => Asked(o)
    BY <1>1, <1>2, LeaveFacts
  <1>4. /\ QueueOK'
        /\ \A i \in DOMAIN captures' : captures'[i].at <= changes
        /\ \A o \in Ops : (\A i \in DOMAIN captures :
                             captures[i].read # Unread => captures[i].at >= op[o].known)
             => \A i \in DOMAIN captures' :
                  captures'[i].read # Unread => captures'[i].at >= op[o].known
    BY <1>1, <1>2, LeaveKeeps
  <1>5. ASSUME NEW o \in Ops PROVE CallerOK(o)'
    <2>1. CallerOK(o) /\ (UpToDate(o)' <=> UpToDate(o))
      BY <1>1, <1>2 DEF UpToDate
    <2>2. PlanOK(o)' /\ SeenOK(o)'
      BY <1>2, <2>1 DEF CallerOK, PlanOK, SeenOK, RestsOnSeen
    <2>3. KeptOK(o)'
      BY <1>2, <1>4, <2>1 DEF CallerOK, KeptOK, Newest
    <2>4. RecordedOK(o)' /\ MarkedOK(o)'
      BY <1>2, <2>1 DEF CallerOK, RecordedOK, MarkedOK, Recorded
    <2>5. QED
      BY <2>2, <2>3, <2>4 DEF CallerOK
  <1>6. OperationsTypeOK'
    BY <1>1, <1>2, <1>3, <1>4 DEF OperationsTypeOK
  <1>7. QED
    BY <1>4, <1>5, <1>6 DEF OperationsInv

(* A capture is written: whoever asked for it is up to date again.         *)
LEMMA WriteStep ==
  ASSUME OperationsInv, Write
  PROVE  OperationsInv'
  <1> DEFINE first == captures[1]
  <1>1. OperationsTypeOK /\ QueueOK /\ \A o \in Ops : CallerOK(o)
    BY DEF OperationsInv
  <1>2. /\ UNCHANGED <<live, changes, asked, moved>>
        /\ captures # <<>> /\ captures' = Tail(captures)
    BY DEF Write
  <1>3. /\ captures' \in Seq(Captures) /\ Head(captures) = first /\ first \in Captures
        /\ 1 \in DOMAIN captures
        /\ \A o \in Ops : Asked(o)' => Asked(o)
        /\ \A o \in Ops : first.by = o => Asked(o)
    BY <1>1, <1>2, LeaveFacts
  <1>4. /\ QueueOK'
        /\ \A i \in DOMAIN captures' : captures'[i].at <= changes
        /\ \A i \in DOMAIN captures' : captures'[i].read # Unread => captures'[i].at >= first.at
        /\ \A o \in Ops : (\A i \in DOMAIN captures :
                             captures[i].read # Unread => captures[i].at >= op[o].known)
             => \A i \in DOMAIN captures' :
                  captures'[i].read # Unread => captures'[i].at >= op[o].known
    BY <1>1, <1>2, LeaveKeeps
  <1>5. first.read # Unread /\ Enters(first)
    BY <1>3 DEF Write
  <1>6. /\ history' \in Seq(Config \cup {Gone}) /\ Recorded \subseteq Recorded'
        /\ first.read \in Config => Newest' = first.read /\ first.read \in Recorded'
    BY <1>1, <1>3, <1>5, EntersFacts
  <1>7. first.at \in Nat /\ first.at <= changes /\ (first.at = changes => first.read = live)
    BY <1>1, <1>3, <1>5 DEF QueueOK, Captures, OperationsTypeOK
  <1>8. ASSUME NEW o \in Ops, op'[o] = op[o] PROVE CallerOK(o)'
    <2>1. CallerOK(o) /\ (UpToDate(o)' <=> UpToDate(o)) /\ op[o].known \in Nat /\ op[o].known <= changes
      BY <1>1, <1>2, <1>8 DEF UpToDate, OperationsTypeOK, Operation
    <2>2. PlanOK(o)' /\ SeenOK(o)'
      BY <1>2, <1>8, <2>1 DEF CallerOK, PlanOK, SeenOK, RestsOnSeen
    <2>3. KeptOK(o)'
      <3> SUFFICES ASSUME op[o].at \in {"keeping", "answering"}, op[o].kept
                   PROVE  /\ \A i \in DOMAIN captures' :
                               captures'[i].read # Unread => captures'[i].at >= op[o].known
                          /\ UpToDate(o) => live \in Config /\ Newest' = live
        BY <1>2, <1>8, <2>1 DEF KeptOK
      <3>1. /\ \A i \in DOMAIN captures : captures[i].read # Unread => captures[i].at >= op[o].known
            /\ UpToDate(o) => live \in Config /\ Newest = live
        BY <2>1 DEF CallerOK, KeptOK
      <3>2. ASSUME UpToDate(o) PROVE live \in Config /\ Newest' = live
        <4>1. first.at = changes
          BY <1>3, <1>5, <1>7, <2>1, <3>1, <3>2 DEF UpToDate
        <4>2. QED
          BY <1>6, <1>7, <3>1, <3>2, <4>1
      <3>3. QED
        BY <1>4, <3>1, <3>2
    <2>4. RecordedOK(o)'
      BY <1>2, <1>6, <1>8, <2>1 DEF CallerOK, RecordedOK
    <2>5. MarkedOK(o)'
      BY <1>2, <1>6, <1>8, <2>1 DEF CallerOK, MarkedOK
    <2>6. QED
      BY <2>2, <2>3, <2>4, <2>5 DEF CallerOK
  <1>9. CASE op' = op
    <2>1. OperationsTypeOK'
      BY <1>1, <1>2, <1>3, <1>4, <1>6, <1>9 DEF OperationsTypeOK
    <2>2. QED
      BY <1>4, <1>8, <1>9, <2>1 DEF OperationsInv
  <1>10. CASE op' # op
    <2>1. PICK o \in Ops : o = first.by /\ first.read \in Config
      BY <1>3, <1>10 DEF Write
    <2> DEFINE new == [op[o] EXCEPT !.known = first.at, !.kept = TRUE]
    <2>2. op[o] \in Operation /\ op \in [Ops -> Operation] /\ op[o].at = "keeping" /\ CallerOK(o)
      BY <1>1, <1>3, <2>1 DEF OperationsTypeOK
    <2>3. op' = [op EXCEPT ![o] = new]
      BY <1>3, <2>1, <2>2, ZenonT(40) DEF Write
    <2>4. /\ new \in Operation /\ new.known = first.at /\ new.kept = TRUE
          /\ new.at = op[o].at /\ new.kind = op[o].kind /\ new.seen = op[o].seen
          /\ new.result = op[o].result /\ new.touched = op[o].touched
          /\ new.lost = op[o].lost /\ new.marked = op[o].marked
      BY <1>7, <2>2 DEF Operation
    <2> HIDE DEF new
    <2>5. op'[o] = new /\ \A p \in Ops \ {o} : op'[p] = op[p]
      BY <2>1, <2>2, <2>3
    <2>6. CallerOK(o)'
      <3>1. PlanOK(o)'
        BY <2>2, <2>4, <2>5 DEF CallerOK, PlanOK
      <3>2. SeenOK(o)'
        BY <2>2, <2>4, <2>5 DEF SeenOK, RestsOnSeen
      <3>3. KeptOK(o)'
        BY <1>2, <1>4, <1>6, <1>7, <2>1, <2>4, <2>5 DEF KeptOK, UpToDate
      <3>4. RecordedOK(o)' /\ MarkedOK(o)'
        BY <2>2, <2>4, <2>5 DEF CallerOK, RecordedOK, MarkedOK
      <3>5. QED
        BY <3>1, <3>2, <3>3, <3>4 DEF CallerOK
    <2>7. OperationsTypeOK'
      <3>1. op' \in [Ops -> Operation]
        BY <2>1, <2>2, <2>3, <2>4
      <3>2. \A p \in Ops : op'[p].known <= changes /\ (Asked(p)' => op'[p].at = "keeping")
        BY <1>1, <1>3, <1>7, <2>2, <2>4, <2>5 DEF OperationsTypeOK
      <3>3. QED
        BY <1>1, <1>2, <1>3, <1>4, <1>6, <3>1, <3>2 DEF OperationsTypeOK
    <2>8. ASSUME NEW p \in Ops PROVE CallerOK(p)'
      BY <1>8, <2>5, <2>6
    <2>9. QED
      BY <1>4, <2>7, <2>8 DEF OperationsInv
  <1>11. QED
    BY <1>9, <1>10

--------------------------------------------------------------------------------
(* The steps of a caller                                                   *)

(* A caller goes on: nobody else's operation is disturbed.                 *)
LEMMA CallerStep ==
  ASSUME OperationsInv, NEW o \in Ops, NEW new \in Operation, op' = [op EXCEPT ![o] = new],
         asked' \in 0 .. MaxAsked, history' = history, moved' \in BOOLEAN,
         \/ UNCHANGED <<live, changes>>
         \/ live' \in States /\ changes' = changes + 1,
         new.known <= changes',
         \/ captures' = captures
         \/ Ask(Listener)
         \/ Ask(o) /\ new.at = "keeping",
         Asked(o) => new.at = "keeping",
         CallerOK(o)'
  PROVE  OperationsInv'
  <1>1. OperationsTypeOK /\ QueueOK /\ \A p \in Ops : CallerOK(p)
    BY DEF OperationsInv
  <1>2. op \in [Ops -> Operation] /\ op' \in [Ops -> Operation]
    BY <1>1 DEF OperationsTypeOK
  <1>3. op'[o] = new /\ \A p \in Ops \ {o} : op'[p] = op[p]
    BY <1>2
  <1>4. captures' = captures \/ \E by \in Ops \cup {Listener, Pass} : Ask(by)
    OBVIOUS
  <1>5. QueueOK' /\ \A p \in Ops : op'[p] = op[p] /\ CallerOK(p) => CallerOK(p)'
    BY <1>1, <1>4, ChangeKeeps, QuietKeeps
  <1>6. captures' \in Seq(Captures) /\ \A p \in Ops : Asked(p)' => op'[p].at = "keeping"
    <2>1. \A p \in Ops : Asked(p) => op'[p].at = "keeping"
      BY <1>1, <1>3 DEF OperationsTypeOK
    <2>2. CASE captures' = captures
      BY <1>1, <2>1, <2>2 DEF OperationsTypeOK, Asked
    <2>3. CASE Ask(Listener)
      BY <1>1, <2>1, <2>3, AskFacts, ValuesAssumption
    <2>4. CASE Ask(o) /\ new.at = "keeping"
      BY <1>1, <1>3, <2>1, <2>4, AskFacts
    <2>5. QED
      BY <2>2, <2>3, <2>4
  <1>7. changes' \in {changes, changes + 1} /\ changes \in Nat /\ changes' \in Nat /\ live' \in States
    BY <1>1 DEF OperationsTypeOK
  <1>8. \A i \in DOMAIN captures' : captures'[i].at <= changes'
    BY <1>1, <1>4, <1>7, AskedInTime
  <1>9. \A p \in Ops : op'[p].known <= changes'
    <2>1. \A p \in Ops : op[p].known \in Nat /\ op[p].known <= changes
      BY <1>1 DEF OperationsTypeOK, Operation
    <2>2. QED
      BY <1>3, <1>7, <2>1
  <1>10. OperationsTypeOK'
    BY <1>1, <1>2, <1>6, <1>7, <1>8, <1>9 DEF OperationsTypeOK
  <1>11. ASSUME NEW p \in Ops PROVE CallerOK(p)'
    BY <1>1, <1>3, <1>5
  <1>12. QED
    BY <1>5, <1>10, <1>11 DEF OperationsInv

(* An operation that is over rests on nothing.                             *)
LEMMA IdleIsGood ==
  ASSUME NEW o \in Ops, op'[o] = Idle
  PROVE  CallerOK(o)'
  <1>1. Idle.at = "idle" /\ Idle.kept = FALSE /\ Idle.kind = "none"
    BY DataFacts
  <1>2. PlanOK(o)'
    BY <1>1 DEF PlanOK
  <1>3. SeenOK(o)' /\ KeptOK(o)' /\ RecordedOK(o)' /\ MarkedOK(o)'
    BY <1>1 DEF SeenOK, RestsOnSeen, KeptOK, RecordedOK, MarkedOK
  <1>4. QED
    BY <1>2, <1>3 DEF CallerOK

LEMMA BeginsStep ==
  ASSUME OperationsInv, NEW o \in Ops, NEW kind \in {"state", "deleted", "undo"},
         NEW result \in Config, NEW touched \in SUBSET Cards, Begins(o, kind, result, touched),
         kind = "state" => touched = Cards,
         \A c \in Cards \ touched : result[c] = Seen[c]
  PROVE  OperationsInv'
  <1>1. OperationsTypeOK /\ op[o] \in Operation /\ changes \in Nat /\ live \in States
    BY DEF OperationsInv, OperationsTypeOK
  <1> DEFINE at  == IF kind = "state" /\ live = Gone THEN "creating" ELSE "previewed"
             new == [Idle EXCEPT !.at = at, !.kind = kind, !.seen = live, !.result = result,
                                 !.touched = touched, !.known = changes]
  <1>2. /\ new \in Operation /\ new.at = at /\ new.kind = kind /\ new.seen = live
        /\ new.result = result /\ new.touched = touched /\ new.known = changes
        /\ new.kept = FALSE /\ new.marked = Unread
    <2>1. at \in {"creating", "previewed"}
      OBVIOUS
    <2> HIDE DEF at
    <2>2. /\ new.at = at /\ new.kind = kind /\ new.seen = live
          /\ new.result = result /\ new.touched = touched /\ new.known = changes
          /\ new.kept = FALSE /\ new.marked = Unread
      BY DEF Idle
    <2>3. new \in Operation
      <3>1. PICK a : a = [Idle EXCEPT !.at = at]
        OBVIOUS
      <3>2. PICK b : b = [a EXCEPT !.kind = kind]
        OBVIOUS
      <3>3. PICK c : c = [b EXCEPT !.seen = live]
        OBVIOUS
      <3>4. PICK d : d = [c EXCEPT !.result = result]
        OBVIOUS
      <3>5. PICK e : e = [d EXCEPT !.touched = touched]
        OBVIOUS
      <3>6. a \in Operation
        BY <2>1, <3>1, DataFacts DEF Operation
      <3>7. b \in Operation
        BY <3>2, <3>6 DEF Operation
      <3>8. c \in Operation
        BY <1>1, <3>3, <3>7 DEF Operation
      <3>9. d \in Operation
        BY <3>4, <3>8 DEF Operation
      <3>10. e \in Operation
        BY <3>5, <3>9 DEF Operation
      <3>11. [e EXCEPT !.known = changes] \in Operation
        BY <1>1, <3>10 DEF Operation
      <3>12. new = [e EXCEPT !.known = changes]
        BY <3>1, <3>2, <3>3, <3>4, <3>5
      <3>13. QED
        BY <3>11, <3>12
    <2>4. QED
      BY <2>2, <2>3
  <1>3. /\ UNCHANGED <<live, changes, history, captures, moved>>
        /\ op[o].at = "idle" /\ asked < MaxAsked /\ asked' = asked + 1
        /\ op' = [op EXCEPT ![o] = new]
    BY DEF Begins
  <1>4. at \in {"creating", "previewed"} /\ (at = "creating" => kind = "state")
    OBVIOUS
  <1> HIDE DEF new, at
  <1>5. op'[o] = new
    BY <1>1, <1>3 DEF OperationsTypeOK
  <1>6. PlanOK(o)'
    BY <1>2, <1>3, <1>4, <1>5 DEF PlanOK, Seen, Shown
  <1>7. SeenOK(o)' /\ KeptOK(o)' /\ RecordedOK(o)' /\ MarkedOK(o)'
    BY <1>2, <1>3, <1>4, <1>5 DEF SeenOK, KeptOK, RecordedOK, MarkedOK
  <1>8. asked' \in 0 .. MaxAsked /\ moved \in BOOLEAN /\ ~Asked(o) /\ new.known <= changes'
    BY <1>1, <1>2, <1>3, BoundsAssumption DEF OperationsTypeOK
  <1>9. CallerOK(o)'
    BY <1>6, <1>7 DEF CallerOK
  <1>10. QED
    BY <1>2, <1>3, <1>8, <1>9, CallerStep

LEMMA AskingStep ==
  ASSUME OperationsInv, NEW o \in Ops, Asking(o)
  PROVE  OperationsInv'
  <1>1. OperationsTypeOK
    BY DEF OperationsInv
  <1>2. Seen \in Config
    BY DataFacts DEF Seen
  <1>3. ASSUME NEW target, RestoreState(o, target) PROVE OperationsInv'
    BY <1>3, BeginsStep DEF RestoreState
  <1>4. ASSUME NEW then, NEW c \in Cards, RestoreDeleted(o, then, c) PROVE OperationsInv'
    <2> DEFINE result == [Seen EXCEPT ![c] = then[c]]
    <2>1. then \in Config /\ Begins(o, "deleted", result, {c})
      BY <1>4 DEF RestoreDeleted
    <2>2. result \in Config /\ \A d \in Cards \ {c} : result[d] = Seen[d]
      BY <1>2, <2>1 DEF Config
    <2> HIDE DEF result
    <2>3. QED
      BY <2>1, <2>2, BeginsStep
  <1>5. ASSUME NEW before, NEW after, UndoChange(o, before, after) PROVE OperationsInv'
    <2> DEFINE result == [c \in Cards |-> IF c \in Altered(before, after)
                                          THEN before[c] ELSE Seen[c]]
    <2>1. before \in Config /\ Begins(o, "undo", result, Altered(before, after))
      BY <1>5 DEF UndoChange
    <2>2. Altered(before, after) \in SUBSET Cards
      BY DEF Altered
    <2>3. result \in Config /\ \A d \in Cards \ Altered(before, after) : result[d] = Seen[d]
      BY <1>2, <2>1 DEF Config
    <2> HIDE DEF result
    <2>4. QED
      BY <2>1, <2>2, <2>3, BeginsStep
  <1>6. CASE RecordNow(o)
    <2>1. op[o] \in Operation /\ changes \in Nat /\ moved \in BOOLEAN /\ asked \in 0 .. MaxAsked
      BY <1>1 DEF OperationsTypeOK
    <2> DEFINE new == [Idle EXCEPT !.at = "keeping", !.kind = "record", !.known = changes]
    <2>2. /\ new \in Operation /\ new.at = "keeping" /\ new.kind = "record"
          /\ new.known = changes /\ new.kept = FALSE /\ new.marked = Unread
      BY <2>1, DataFacts DEF Idle, Operation
    <2>3. /\ UNCHANGED <<live, changes, history, moved>> /\ Ask(o)
          /\ asked < MaxAsked /\ asked' = asked + 1 /\ op' = [op EXCEPT ![o] = new]
      BY <1>6 DEF RecordNow
    <2> HIDE DEF new
    <2>4. op'[o] = new
      BY <1>1, <2>3 DEF OperationsTypeOK
    <2>5. PlanOK(o)' /\ SeenOK(o)' /\ KeptOK(o)' /\ RecordedOK(o)' /\ MarkedOK(o)'
      BY <2>2, <2>4 DEF PlanOK, SeenOK, RestsOnSeen, KeptOK, RecordedOK, MarkedOK
    <2>6. asked' \in 0 .. MaxAsked /\ new.known <= changes'
      BY <2>1, <2>2, <2>3, BoundsAssumption
    <2>7. CallerOK(o)'
      BY <2>5 DEF CallerOK
    <2>8. QED
      BY <2>1, <2>2, <2>3, <2>6, <2>7, CallerStep
  <1>7. QED
    BY <1>3, <1>4, <1>5, <1>6 DEF Asking

(* An operation that goes on keeps what it has put together.               *)
LEMMA GoesOn ==
  ASSUME OperationsTypeOK, NEW o \in Ops,
         NEW step \in {"keeping", "naming", "comparing", "saving", "answering"},
         Steps(o, step)
  PROVE  \E new \in Operation :
           /\ new.at = step
           /\ new.kind = op[o].kind /\ new.seen = op[o].seen /\ new.result = op[o].result
           /\ new.touched = op[o].touched /\ new.lost = op[o].lost /\ new.marked = op[o].marked
           /\ new.known = op[o].known /\ new.kept = op[o].kept
           /\ op' = [op EXCEPT ![o] = new]
  <1>1. op[o] \in Operation /\ op \in [Ops -> Operation]
    BY DEF OperationsTypeOK
  <1>2. PICK new : new = [op[o] EXCEPT !.at = step]
    OBVIOUS
  <1>3. /\ new \in Operation /\ new.at = step
        /\ new.kind = op[o].kind /\ new.seen = op[o].seen /\ new.result = op[o].result
        /\ new.touched = op[o].touched /\ new.lost = op[o].lost /\ new.marked = op[o].marked
        /\ new.known = op[o].known /\ new.kept = op[o].kept
    BY <1>1, <1>2 DEF Operation
  <1>4. op' = [op EXCEPT ![o] = new]
    BY <1>2 DEF Steps
  <1>5. QED
    BY <1>3, <1>4

LEMMA EndsStep ==
  ASSUME OperationsInv, NEW o \in Ops, Ends(o), ~Asked(o), UNCHANGED <<asked, history, moved>>,
         captures' = captures \/ Ask(Listener),
         \/ UNCHANGED <<live, changes>>
         \/ live' \in States /\ changes' = changes + 1
  PROVE  OperationsInv'
  <1>1. OperationsTypeOK /\ changes \in Nat /\ asked \in 0 .. MaxAsked /\ moved \in BOOLEAN
    BY DEF OperationsInv, OperationsTypeOK
  <1>2. op' = [op EXCEPT ![o] = Idle] /\ op'[o] = Idle
    BY <1>1 DEF Ends, OperationsTypeOK
  <1>3. Idle \in Operation /\ Idle.known <= changes'
    BY <1>1, DataFacts
  <1>4. CallerOK(o)'
    BY <1>2, IdleIsGood
  <1>5. QED
    BY <1>1, <1>2, <1>3, <1>4, CallerStep

LEMMA CreateDashboardStep ==
  ASSUME OperationsInv, NEW o \in Ops, CreateDashboard(o)
  PROVE  OperationsInv'
  <1>1. /\ OperationsTypeOK /\ CallerOK(o) /\ op[o] \in Operation /\ changes \in Nat
        /\ asked \in 0 .. MaxAsked
    BY DEF OperationsInv, OperationsTypeOK
  <1>2. op[o].at = "creating" /\ UNCHANGED <<asked, history, captures>> /\ ~Asked(o)
    BY <1>1 DEF CreateDashboard, OperationsTypeOK
  <1>3. CASE live # Gone
    BY <1>2, <1>3, EndsStep DEF CreateDashboard
  <1>4. CASE live = Gone
    <2> DEFINE next == changes + 1
               new  == [op[o] EXCEPT !.at = "saving", !.known = next]
    <2>1. next \in Nat
      BY <1>1
    <2> HIDE DEF next
    <2>2. /\ new \in Operation /\ new.at = "saving" /\ new.known = next
          /\ new.kind = op[o].kind /\ new.seen = op[o].seen /\ new.result = op[o].result
          /\ new.touched = op[o].touched /\ new.marked = op[o].marked
      BY <1>1, <2>1 DEF Operation
    <2>3. /\ live' = Unsaved /\ changes' = next /\ moved' = TRUE
          /\ op' = [op EXCEPT ![o] = new]
      BY <1>1, <1>4 DEF CreateDashboard, PanelMoves, OperationsTypeOK, next
    <2> HIDE DEF new
    <2>4. op'[o] = new /\ live' \in States /\ live' \notin Config
      BY <1>1, <2>3, DataFacts DEF OperationsTypeOK, States
    <2>5. PlanOK(o)'
      BY <1>1, <1>2, <2>2, <2>4 DEF CallerOK, PlanOK
    <2>6. SeenOK(o)' /\ KeptOK(o)' /\ RecordedOK(o)' /\ MarkedOK(o)'
      <3>1. op[o].kind = "state"
        BY <1>1, <1>2 DEF CallerOK, PlanOK
      <3>2. QED
        BY <2>2, <2>4, <3>1 DEF SeenOK, RestsOnSeen, KeptOK, RecordedOK, MarkedOK
    <2>7. CallerOK(o)' /\ new.known <= changes'
      BY <2>1, <2>2, <2>3, <2>5, <2>6 DEF CallerOK
    <2>8. QED
      BY <1>1, <1>2, <2>2, <2>3, <2>4, <2>7, CallerStep DEF next
  <1>5. QED
    BY <1>3, <1>4

LEMMA KeepStep ==
  ASSUME OperationsInv, NEW o \in Ops, Keep(o)
  PROVE  OperationsInv'
  <1>1. /\ OperationsTypeOK /\ CallerOK(o) /\ op[o] \in Operation /\ changes \in Nat
        /\ asked \in 0 .. MaxAsked /\ moved \in BOOLEAN /\ op[o].known <= changes
    BY DEF OperationsInv, OperationsTypeOK
  <1>2. /\ op[o].at = "previewed" /\ ~Asked(o)
        /\ UNCHANGED <<live, changes, asked, history, moved>>
    BY <1>1 DEF Keep, OperationsTypeOK
  <1>3. PICK step \in {"keeping", "naming", "saving"} :
          /\ Steps(o, step)
          /\ step = "keeping" => Ask(o)
          /\ step # "keeping" => captures' = captures /\ op[o].seen \notin Config
          /\ step = "naming" => op[o].kind = "state"
    BY DEF Keep, AfterCheck
  <1>4. step \in {"keeping", "naming", "comparing", "saving", "answering"}
    OBVIOUS
  <1>5. PICK new \in Operation :
          /\ new.at = step
          /\ new.kind = op[o].kind /\ new.seen = op[o].seen /\ new.result = op[o].result
          /\ new.touched = op[o].touched /\ new.lost = op[o].lost /\ new.marked = op[o].marked
          /\ new.known = op[o].known /\ new.kept = op[o].kept
          /\ op' = [op EXCEPT ![o] = new]
    BY <1>1, <1>3, <1>4, GoesOn
  <1>6. op'[o] = new
    BY <1>1, <1>5 DEF OperationsTypeOK
  <1>7. UpToDate(o)' => live = op[o].seen
    BY <1>1, <1>2, <1>5, <1>6 DEF CallerOK, SeenOK, RestsOnSeen, UpToDate
  <1>8. PlanOK(o)'
    BY <1>1, <1>2, <1>3, <1>5, <1>6 DEF CallerOK, PlanOK
  <1>9. SeenOK(o)'
    BY <1>2, <1>5, <1>6, <1>7 DEF SeenOK
  <1>10. KeptOK(o)'
    BY <1>1, <1>2, <1>5, <1>6 DEF CallerOK, PlanOK, KeptOK
  <1>11. RecordedOK(o)' /\ MarkedOK(o)'
    BY <1>1, <1>2, <1>3, <1>5, <1>6, <1>7 DEF CallerOK, RecordedOK, MarkedOK
  <1>12. CallerOK(o)' /\ new.known <= changes' /\ captures' \in {captures, captures'}
    BY <1>1, <1>2, <1>5, <1>8, <1>9, <1>10, <1>11 DEF CallerOK
  <1>13. captures' = captures \/ (Ask(o) /\ new.at = "keeping")
    BY <1>3, <1>5
  <1>14. QED
    BY <1>1, <1>2, <1>5, <1>12, <1>13, CallerStep

LEMMA CheckKeptStep ==
  ASSUME OperationsInv, NEW o \in Ops, CheckKept(o)
  PROVE  OperationsInv'
  <1>1. /\ OperationsTypeOK /\ CallerOK(o) /\ op[o] \in Operation /\ changes \in Nat
        /\ asked \in 0 .. MaxAsked /\ moved \in BOOLEAN /\ op[o].known <= changes
    BY DEF OperationsInv, OperationsTypeOK
  <1>2. /\ op[o].at = "keeping" /\ op[o].kind # "record" /\ ~Asked(o)
        /\ UNCHANGED <<live, changes, asked, history, captures, moved>>
    BY DEF CheckKept
  <1>3. CASE Ends(o)
    BY <1>2, <1>3, EndsStep
  <1>4. CASE op' = [op EXCEPT ![o].lost = TRUE, ![o].at = "saving"]
    <2> DEFINE new == [op[o] EXCEPT !.lost = TRUE, !.at = "saving"]
    <2>1. /\ new \in Operation /\ new.at = "saving" /\ new.lost = TRUE
          /\ new.kind = op[o].kind /\ new.seen = op[o].seen /\ new.result = op[o].result
          /\ new.touched = op[o].touched /\ new.marked = op[o].marked /\ new.known = op[o].known
      BY <1>1 DEF Operation
    <2>2. op' = [op EXCEPT ![o] = new]
      BY <1>1, <1>4 DEF OperationsTypeOK
    <2> HIDE DEF new
    <2>3. op'[o] = new
      BY <1>1, <2>2 DEF OperationsTypeOK
    <2>4. PlanOK(o)'
      BY <1>1, <1>2, <2>1, <2>3 DEF CallerOK, PlanOK
    <2>5. SeenOK(o)' /\ KeptOK(o)' /\ RecordedOK(o)'
      BY <2>1, <2>3 DEF SeenOK, RestsOnSeen, KeptOK, RecordedOK
    <2>6. MarkedOK(o)'
      BY <1>1, <1>2, <2>1, <2>3 DEF CallerOK, MarkedOK
    <2>7. CallerOK(o)' /\ new.known <= changes'
      BY <1>1, <1>2, <2>1, <2>4, <2>5, <2>6 DEF CallerOK
    <2>8. QED
      BY <1>1, <1>2, <2>1, <2>2, <2>7, CallerStep
  <1>5. ASSUME IsKept(o), NEW step \in AfterCheck(o), Steps(o, step) PROVE OperationsInv'
    <2>1. step \in {"naming", "saving"} /\ (step = "naming" => op[o].kind = "state")
      BY <1>5 DEF AfterCheck
    <2>2. step \in {"keeping", "naming", "comparing", "saving", "answering"}
      BY <2>1
    <2>3. PICK new \in Operation :
            /\ new.at = step
            /\ new.kind = op[o].kind /\ new.seen = op[o].seen /\ new.result = op[o].result
            /\ new.touched = op[o].touched /\ new.lost = op[o].lost /\ new.marked = op[o].marked
            /\ new.known = op[o].known /\ new.kept = op[o].kept
            /\ op' = [op EXCEPT ![o] = new]
      BY <1>1, <1>5, <2>2, GoesOn
    <2>4. op'[o] = new
      BY <1>1, <2>3 DEF OperationsTypeOK
    <2>5. UpToDate(o)' => live = op[o].seen
      <3>1. Newest = op[o].seen
        BY <1>5 DEF IsKept
      <3>2. UpToDate(o)' => UpToDate(o)
        BY <1>2, <2>3, <2>4 DEF UpToDate
      <3>3. CASE op[o].kept
        BY <1>1, <1>2, <3>1, <3>2, <3>3 DEF CallerOK, KeptOK
      <3>4. CASE ~op[o].kept
        BY <1>1, <1>2, <3>2, <3>4 DEF CallerOK, SeenOK, RestsOnSeen
      <3>5. QED
        BY <3>3, <3>4
    <2>6. live = op[o].seen /\ live \in Config => live \in Recorded
      BY <1>1, <1>5, EntryFacts, DataFacts DEF IsKept
    <2>7. PlanOK(o)'
      BY <1>1, <1>2, <2>1, <2>3, <2>4 DEF CallerOK, PlanOK
    <2>8. SeenOK(o)' /\ KeptOK(o)'
      BY <1>2, <2>1, <2>3, <2>4, <2>5 DEF SeenOK, KeptOK
    <2>9. RecordedOK(o)'
      <3>1. UNCHANGED <<live, history>>
        BY <1>2
      <3>2. QED
        BY <2>5, <2>6, <3>1 DEF RecordedOK, Recorded
    <2>10. MarkedOK(o)'
      BY <1>1, <1>2, <2>1, <2>3, <2>4 DEF CallerOK, MarkedOK
    <2>11. CallerOK(o)' /\ new.known <= changes'
      BY <1>1, <1>2, <2>3, <2>7, <2>8, <2>9, <2>10 DEF CallerOK
    <2>12. QED
      BY <1>1, <1>2, <2>3, <2>11, CallerStep
  <1>6. QED
    BY <1>3, <1>4, <1>5 DEF CheckKept

LEMMA NameStep ==
  ASSUME OperationsInv, NEW o \in Ops, Name(o)
  PROVE  OperationsInv'
  <1>1. /\ OperationsTypeOK /\ CallerOK(o) /\ op[o] \in Operation /\ changes \in Nat
        /\ asked \in 0 .. MaxAsked /\ moved \in BOOLEAN /\ op[o].known <= changes
    BY DEF OperationsInv, OperationsTypeOK
  <1>2. /\ op[o].at = "naming" /\ ~Asked(o)
        /\ UNCHANGED <<live, changes, asked, history, captures, moved>>
    BY <1>1 DEF Name, OperationsTypeOK
  <1>3. Newest \in Recorded \cup {Gone} /\ Newest \in States
    BY <1>1, EntryFacts DEF States
  <1> DEFINE new == [op[o] EXCEPT !.marked = Newest, !.at = "comparing"]
  <1>4. /\ new \in Operation /\ new.at = "comparing" /\ new.marked = Newest
        /\ new.kind = op[o].kind /\ new.seen = op[o].seen /\ new.result = op[o].result
        /\ new.touched = op[o].touched /\ new.lost = op[o].lost /\ new.known = op[o].known
    BY <1>1, <1>3 DEF Operation
  <1>5. op' = [op EXCEPT ![o] = new]
    BY <1>1 DEF Name, OperationsTypeOK
  <1> HIDE DEF new
  <1>6. op'[o] = new
    BY <1>1, <1>5 DEF OperationsTypeOK
  <1>7. PlanOK(o)'
    BY <1>1, <1>2, <1>4, <1>6 DEF CallerOK, PlanOK
  <1>8. SeenOK(o)' /\ KeptOK(o)'
    BY <1>4, <1>6 DEF SeenOK, RestsOnSeen, KeptOK
  <1>9. RecordedOK(o)' /\ MarkedOK(o)'
    BY <1>1, <1>2, <1>3, <1>4, <1>6 DEF CallerOK, RecordedOK, MarkedOK, UpToDate, Recorded
  <1>10. CallerOK(o)' /\ new.known <= changes'
    BY <1>1, <1>2, <1>4, <1>7, <1>8, <1>9 DEF CallerOK
  <1>11. QED
    BY <1>1, <1>2, <1>4, <1>5, <1>10, CallerStep

LEMMA CompareStep ==
  ASSUME OperationsInv, NEW o \in Ops, Compare(o)
  PROVE  OperationsInv'
  <1>1. /\ OperationsTypeOK /\ CallerOK(o) /\ op[o] \in Operation /\ changes \in Nat
        /\ asked \in 0 .. MaxAsked /\ moved \in BOOLEAN /\ op[o].known <= changes
    BY DEF OperationsInv, OperationsTypeOK
  <1>2. /\ op[o].at = "comparing" /\ ~Asked(o)
        /\ UNCHANGED <<live, changes, asked, history, captures, moved>>
    BY <1>1 DEF Compare, OperationsTypeOK
  <1> DEFINE fits  == Nameable(op[o].marked)
             mark  == IF fits THEN op[o].marked ELSE Unread
             known == IF fits THEN changes ELSE op[o].known
             new   == [op[o] EXCEPT !.at = "saving", !.marked = mark, !.known = known]
  <1>3. /\ mark \in States \cup {Unread} /\ known \in Nat /\ known <= changes
        /\ op[o].kind = "state" /\ op[o].marked \in Recorded \cup {Gone}
    BY <1>1, <1>2 DEF Operation, CallerOK, PlanOK, MarkedOK
  <1>4. op' = [op EXCEPT ![o] = new]
    BY <1>1 DEF Compare, OperationsTypeOK
  <1>5. /\ fits => live \notin Config \/ (live = mark /\ live \in Recorded)
        /\ ~fits => mark = Unread /\ known = op[o].known
    BY <1>3, DataFacts DEF Nameable
  <1> HIDE DEF fits, mark, known
  <1>6. /\ new \in Operation /\ new.at = "saving" /\ new.marked = mark /\ new.known = known
        /\ new.kind = op[o].kind /\ new.seen = op[o].seen /\ new.result = op[o].result
        /\ new.touched = op[o].touched /\ new.lost = op[o].lost
    BY <1>1, <1>3 DEF Operation
  <1> HIDE DEF new
  <1>7. op'[o] = new
    BY <1>1, <1>4 DEF OperationsTypeOK
  <1>8. PlanOK(o)'
    BY <1>1, <1>2, <1>6, <1>7 DEF CallerOK, PlanOK
  <1>9. SeenOK(o)' /\ KeptOK(o)'
    BY <1>3, <1>6, <1>7 DEF SeenOK, RestsOnSeen, KeptOK
  <1>10. RecordedOK(o)'
    BY <1>1, <1>2, <1>5, <1>6, <1>7 DEF CallerOK, RecordedOK, UpToDate, Recorded
  <1>11. MarkedOK(o)'
    BY <1>2, <1>5, <1>6, <1>7 DEF MarkedOK
  <1>12. CallerOK(o)' /\ new.known <= changes'
    BY <1>2, <1>3, <1>6, <1>8, <1>9, <1>10, <1>11 DEF CallerOK
  <1>13. QED
    BY <1>1, <1>2, <1>4, <1>6, <1>12, CallerStep

LEMMA SaveConfigStep ==
  ASSUME OperationsInv, NEW o \in Ops, SaveConfig(o)
  PROVE  OperationsInv'
  <1>1. OperationsTypeOK /\ op[o] \in Operation /\ op[o].at = "saving" /\ ~Asked(o)
    BY DEF SaveConfig, OperationsInv, OperationsTypeOK
  <1>2. op[o].result \in States
    BY <1>1 DEF Operation, States
  <1>3. Ends(o) /\ UNCHANGED <<asked, history, moved>>
    BY DEF SaveConfig
  <1>4. \/ UNCHANGED <<live, changes, captures>>
        \/ live' = op[o].result /\ changes' = changes + 1 /\ Ask(Listener)
    BY DEF SaveConfig
  <1>5. QED
    BY <1>1, <1>2, <1>3, <1>4, EndsStep

LEMMA RecordNowStep ==
  ASSUME OperationsInv, NEW o \in Ops, ReadsLive(o) \/ AnswersRecorded(o)
  PROVE  OperationsInv'
  <1>1. /\ OperationsTypeOK /\ CallerOK(o) /\ op[o] \in Operation /\ changes \in Nat
        /\ asked \in 0 .. MaxAsked /\ moved \in BOOLEAN /\ op[o].known <= changes
    BY DEF OperationsInv, OperationsTypeOK
  <1>2. ~Asked(o) /\ UNCHANGED <<live, changes, asked, history, captures, moved>>
    BY <1>1 DEF ReadsLive, AnswersRecorded, OperationsTypeOK
  <1>3. CASE Ends(o)
    BY <1>2, <1>3, EndsStep
  <1>4. CASE ReadsLive(o) /\ ~Ends(o)
    <2> DEFINE new == [op[o] EXCEPT !.seen = live, !.at = "answering"]
    <2>1. op[o].at = "keeping" /\ op[o].kind = "record" /\ live \in Config
      BY <1>4 DEF ReadsLive
    <2>2. /\ new \in Operation /\ new.at = "answering" /\ new.seen = live
          /\ new.kind = op[o].kind /\ new.known = op[o].known /\ new.kept = op[o].kept
      BY <1>1, <2>1 DEF Operation, States
    <2>3. op' = [op EXCEPT ![o] = new]
      BY <1>1, <1>4 DEF ReadsLive, OperationsTypeOK
    <2> HIDE DEF new
    <2>4. op'[o] = new
      BY <1>1, <2>3 DEF OperationsTypeOK
    <2>5. PlanOK(o)' /\ SeenOK(o)' /\ RecordedOK(o)' /\ MarkedOK(o)'
      BY <1>2, <2>1, <2>2, <2>4 DEF PlanOK, SeenOK, RecordedOK, MarkedOK
    <2>6. KeptOK(o)'
      BY <1>1, <1>2, <2>1, <2>2, <2>4 DEF CallerOK, KeptOK, UpToDate, Newest
    <2>7. CallerOK(o)' /\ new.known <= changes'
      BY <1>1, <1>2, <2>2, <2>5, <2>6 DEF CallerOK
    <2>8. QED
      BY <1>1, <1>2, <2>2, <2>3, <2>7, CallerStep
  <1>5. QED
    BY <1>3, <1>4 DEF AnswersRecorded

--------------------------------------------------------------------------------
(* The theorems                                                            *)

LEMMA InitIsGood ==
  ASSUME Init
  PROVE  OperationsInv
  <1>1. /\ live \in Config /\ changes = 0 /\ asked = 0 /\ captures = <<>> /\ moved = FALSE
        /\ op = [o \in Ops |-> Idle]
    BY DEF Init
  <1>2. history \in Seq(Config \cup {Gone})
    <2>1. PICK c \in Config : history = <<c>>
      BY DEF Init
    <2>2. QED
      BY <2>1
  <1>3. Idle \in Operation /\ Idle.at = "idle" /\ Idle.kept = FALSE /\ Idle.kind = "none"
        /\ Idle.known = 0
    BY DataFacts
  <1>4. captures \in Seq(Captures) /\ DOMAIN captures = {}
    BY <1>1
  <1>5. OperationsTypeOK
    <2>1. changes \in Nat /\ asked \in 0 .. MaxAsked
      BY <1>1, BoundsAssumption
    <2>2. live \in States /\ moved \in BOOLEAN
      BY <1>1, Zenon DEF States
    <2>3. op \in [Ops -> Operation] /\ \A o \in Ops : op[o].known <= changes
      BY <1>1, <1>3
    <2>4. \A o \in Ops : ~Asked(o)
      BY <1>4 DEF Asked
    <2>5. QED
      BY <1>2, <1>4, <2>1, <2>3, <2>4, <2>2 DEF OperationsTypeOK
  <1>6. QueueOK
    BY <1>4 DEF QueueOK
  <1>7. ASSUME NEW o \in Ops PROVE CallerOK(o)
    <2>1. op[o].at = "idle" /\ op[o].kept = FALSE /\ op[o].kind = "none"
      BY <1>1, <1>3
    <2>2. QED
      BY <2>1 DEF CallerOK, PlanOK, SeenOK, RestsOnSeen, KeptOK, RecordedOK, MarkedOK
  <1>8. QED
    BY <1>5, <1>6, <1>7 DEF OperationsInv

LEMMA EveryStep ==
  ASSUME OperationsInv, [Next]_vars
  PROVE  OperationsInv'
  <1>1. CASE Save \/ Delete \/ Create
    BY <1>1, PeopleStep
  <1>2. CASE Reconcile
    BY <1>2, ReconcileStep
  <1>3. CASE Write
    BY <1>3, WriteStep
  <1>4. CASE CaptureFails
    BY <1>4, CaptureFailsStep
  <1>5. CASE \E i \in DOMAIN captures : Read(i)
    BY <1>5, ReadStep
  <1>6. ASSUME NEW o \in Ops, Asking(o) PROVE OperationsInv'
    BY <1>6, AskingStep
  <1>7. ASSUME NEW o \in Ops, Confirmed(o) PROVE OperationsInv'
    BY <1>7, CreateDashboardStep, KeepStep, CheckKeptStep, NameStep, CompareStep,
       SaveConfigStep, RecordNowStep DEF Confirmed
  <1>8. CASE UNCHANGED vars
    <2>1. UNCHANGED <<live, changes, asked, history, captures, moved, op>>
      BY <1>8 DEF vars
    <2>2. OperationsTypeOK'
      BY <2>1 DEF OperationsInv, OperationsTypeOK, Asked
    <2>3. QueueOK' /\ \A o \in Ops : CallerOK(o)'
      BY <2>1, QuietKeeps DEF OperationsInv
    <2>4. QED
      BY <2>2, <2>3 DEF OperationsInv
  <1>9. QED
    BY <1>1, <1>2, <1>3, <1>4, <1>5, <1>6, <1>7, <1>8 DEF Next

(* In every reachable state of operations.py: what an operation still      *)
(* rests on is live or was overtaken, its capture was written before any   *)
(* that read later, and what passed the check is in the history.           *)
THEOREM OperationsInvariant == Spec => []OperationsInv
  <1>1. Init => OperationsInv
    BY InitIsGood
  <1>2. OperationsInv /\ [Next]_vars => OperationsInv'
    BY EveryStep
  <1>3. QED
    BY <1>1, <1>2, PTL DEF Spec

(* The variables of the operations keep their types; a capture that an     *)
(* operation asked for is waited for, and nothing is noted before its time.*)
THEOREM OperationsTypeCorrect == Spec => []OperationsTypeOK
  <1>1. OperationsInv => OperationsTypeOK
    BY DEF OperationsInv
  <1>2. QED
    BY <1>1, OperationsInvariant, PTL

(* A caller whose operation is done was at its last step.                  *)
LEMMA WhoEnds ==
  ASSUME OperationsInv, [Next]_vars, NEW o \in Ops,
         op[o].at \in {"saving", "answering"}, op'[o].at = "idle"
  PROVE  \/ op[o].at = "saving" /\ SaveConfig(o)
         \/ op[o].at = "answering" /\ AnswersRecorded(o)
  <1>1. op \in [Ops -> Operation]
    BY DEF OperationsInv, OperationsTypeOK
  <1>2. op'[o] # op[o]
    OBVIOUS
  <1>3. ASSUME NEW p \in Ops, Asking(p) PROVE FALSE
    <2>1. op[p].at = "idle" /\ \A q \in Ops \ {p} : op'[q] = op[q]
      BY <1>1, <1>3 DEF Asking, RestoreState, RestoreDeleted, UndoChange, RecordNow, Begins
    <2>2. p # o
      <3>1. op[o].at # "idle"
        OBVIOUS
      <3>2. QED
        BY <2>1, <3>1
    <2>3. o \in Ops \ {p}
      BY <2>2
    <2>4. op'[o] = op[o]
      BY <2>1, <2>3
    <2>5. QED
      BY <1>2, <2>4, ZenonT(40)
  <1>4. ASSUME NEW p \in Ops, Confirmed(p)
        PROVE  \/ op[o].at = "saving" /\ SaveConfig(o)
               \/ op[o].at = "answering" /\ AnswersRecorded(o)
    <2>1. \A q \in Ops \ {p} : op'[q] = op[q]
      BY <1>1, <1>4 DEF Confirmed, CreateDashboard, Keep, CheckKept, Name, Compare, SaveConfig,
         ReadsLive, AnswersRecorded, Steps, Ends
    <2>2. p = o
      BY <1>2, <2>1
    <2>3. QED
      BY <1>4, <2>2 DEF Confirmed, CreateDashboard, Keep, CheckKept, Name, Compare, SaveConfig,
         ReadsLive, AnswersRecorded
  <1>5. ASSUME Write PROVE FALSE
    <2>1. captures # <<>> /\ Head(captures) \in Captures
          /\ \A p \in Ops : Head(captures).by = p => Asked(p)
      <3>1. captures # <<>> /\ captures' = Tail(captures)
        BY <1>5 DEF Write
      <3>2. QED
        BY <3>1, LeaveFacts DEF OperationsInv
    <2>2. Head(captures).by # o
      BY <2>1 DEF OperationsInv, OperationsTypeOK
    <2>3. QED
      BY <1>1, <1>2, <1>5, <2>2 DEF Write
  <1>6. QED
    BY <1>2, <1>3, <1>4, <1>5 DEF Next, vars, Save, Delete, Create, PanelMoves, Reconcile,
       CaptureFails, Read

(* What the step of a write is known to do.                                *)
LEMMA WritesFacts ==
  ASSUME OperationsInv, [Next]_vars, NEW o \in Ops, Writes(o)
  PROVE  /\ op[o].at = "saving" /\ live # Gone /\ live' = op[o].result
         /\ op[o].known <= changes /\ op[o].known \in Nat /\ changes \in Nat
         /\ op[o].kind # "record" /\ CallerOK(o)
  <1>1. op[o].at = "saving" /\ SaveConfig(o) /\ live # Gone
    BY WhoEnds DEF Writes
  <1>2. CallerOK(o)
    BY DEF OperationsInv
  <1>3. op[o].known <= changes /\ op[o].known \in Nat /\ changes \in Nat
    BY DEF OperationsInv, OperationsTypeOK, Operation
  <1>4. QED
    BY <1>1, <1>2, <1>3 DEF SaveConfig, CallerOK, PlanOK

(* README.md:20, operations.py:851-900: what a write replaces is an entry  *)
(* of the history, for any interleaving of callers, people and captures    *)
(* that wait or fail; unless the caller insisted or was overtaken.         *)
THEOREM WhatIsReplacedIsRecorded == Spec => ReplacedIsRecorded
  <1>1. ASSUME OperationsInv, [Next]_vars
        PROVE  [\A o \in Ops : Writes(o) /\ live \in Config
                  => live \in Recorded \/ op[o].lost \/ Overtaken(o)]_vars
    <2> SUFFICES ASSUME NEW o \in Ops, Writes(o), live \in Config, ~op[o].lost, ~Overtaken(o)
                 PROVE  live \in Recorded
      OBVIOUS
    <2>1. /\ op[o].at = "saving" /\ CallerOK(o)
          /\ op[o].known <= changes /\ op[o].known \in Nat /\ changes \in Nat
      BY <1>1, WritesFacts
    <2>2. UpToDate(o)
      BY <2>1 DEF Overtaken, UpToDate
    <2>3. QED
      BY <2>1, <2>2 DEF CallerOK, RecordedOK
  <1>2. OperationsInv /\ [Next]_vars =>
          [\A o \in Ops : Writes(o) /\ live \in Config
             => live \in Recorded \/ op[o].lost \/ Overtaken(o)]_vars
    BY <1>1
  <1>3. QED
    BY <1>2, OperationsInvariant, PTL DEF Spec, ReplacedIsRecorded

(* operations.py:1002-1006: putting back and undoing alter only the cards  *)
(* they are about, although a save may fall between any two of their steps *)
(* and the check asks for the newest entry and not for the live dashboard. *)
THEOREM OnlyOwnCardsAreAltered == Spec => OnlyItsOwnCards
  <1>1. ASSUME OperationsInv, [Next]_vars
        PROVE  [\A o \in Ops : Writes(o)
                  => \/ op[o].lost \/ Overtaken(o)
                     \/ \A c \in Cards \ op[o].touched : live'[c] = Seen[c]]_vars
    <2> SUFFICES ASSUME NEW o \in Ops, Writes(o), ~op[o].lost, ~Overtaken(o),
                        NEW c \in Cards \ op[o].touched
                 PROVE  live'[c] = Seen[c]
      OBVIOUS
    <2>1. /\ op[o].at = "saving" /\ CallerOK(o) /\ live' = op[o].result
          /\ op[o].known <= changes /\ op[o].known \in Nat /\ changes \in Nat
          /\ op[o].kind # "record"
      BY <1>1, WritesFacts
    <2>2. UpToDate(o)
      BY <2>1 DEF Overtaken, UpToDate
    <2>3. op[o].kind # "state"
      BY <2>1 DEF CallerOK, PlanOK
    <2>4. live = op[o].seen
      BY <2>1, <2>2, <2>3 DEF CallerOK, SeenOK, RestsOnSeen
    <2>5. op[o].result[c] = Shown(op[o].seen)[c]
      BY <2>1 DEF CallerOK, PlanOK
    <2>6. QED
      BY <2>1, <2>4, <2>5 DEF Shown, Seen
  <1>2. OperationsInv /\ [Next]_vars =>
          [\A o \in Ops : Writes(o)
             => \/ op[o].lost \/ Overtaken(o)
                \/ \A c \in Cards \ op[o].touched : live'[c] = Seen[c]]_vars
    BY <1>1
  <1>3. QED
    BY <1>2, OperationsInvariant, PTL DEF Spec, OnlyItsOwnCards

(* operations.py:864-882: the version a restore leaves behind is of the    *)
(* state it replaced, however many awaits lie between choosing the entry,  *)
(* comparing and saving.                                                   *)
THEOREM VersionMarksTheReplaced == Spec => VersionIsOfTheReplaced
  <1>1. ASSUME OperationsInv, [Next]_vars
        PROVE  [\A o \in Ops : Writes(o) /\ live \in Config /\ op[o].marked # Unread
                  => op[o].marked = live \/ Overtaken(o)]_vars
    <2> SUFFICES ASSUME NEW o \in Ops, Writes(o), live \in Config, op[o].marked # Unread,
                        ~Overtaken(o)
                 PROVE  op[o].marked = live
      OBVIOUS
    <2>1. /\ op[o].at = "saving" /\ CallerOK(o)
          /\ op[o].known <= changes /\ op[o].known \in Nat /\ changes \in Nat
      BY <1>1, WritesFacts
    <2>2. UpToDate(o)
      BY <2>1 DEF Overtaken, UpToDate
    <2>3. QED
      BY <2>1, <2>2 DEF CallerOK, MarkedOK
  <1>2. OperationsInv /\ [Next]_vars =>
          [\A o \in Ops : Writes(o) /\ live \in Config /\ op[o].marked # Unread
             => op[o].marked = live \/ Overtaken(o)]_vars
    BY <1>1
  <1>3. QED
    BY <1>2, OperationsInvariant, PTL DEF Spec, VersionIsOfTheReplaced

(* operations.py:641-650: an answer that a state did not reach the history *)
(* is right: no capture that another asked for can come in between.        *)
THEOREM FailuresAreReal == Spec => FailureIsReal
  <1>1. ASSUME OperationsInv, [Next]_vars
        PROVE  [\A o \in Ops : op[o].at = "answering" /\ op'[o].at = "idle" /\ ~IsKept(o)
                  => ~op[o].kept \/ Overtaken(o)]_vars
    <2> SUFFICES ASSUME NEW o \in Ops, op[o].at = "answering", op[o].kept, ~Overtaken(o)
                 PROVE  IsKept(o)
      OBVIOUS
    <2>1. CallerOK(o) /\ op[o].known <= changes /\ op[o].known \in Nat /\ changes \in Nat
      BY <1>1 DEF OperationsInv, OperationsTypeOK, Operation
    <2>2. UpToDate(o)
      BY <2>1 DEF Overtaken, UpToDate
    <2>3. live = op[o].seen
      BY <2>1, <2>2 DEF CallerOK, SeenOK, RestsOnSeen
    <2>4. Newest = live
      BY <2>1, <2>2 DEF CallerOK, KeptOK
    <2>5. QED
      BY <2>3, <2>4 DEF IsKept
  <1>2. OperationsInv /\ [Next]_vars =>
          [\A o \in Ops : op[o].at = "answering" /\ op'[o].at = "idle" /\ ~IsKept(o)
             => ~op[o].kept \/ Overtaken(o)]_vars
    BY <1>1
  <1>3. QED
    BY <1>2, OperationsInvariant, PTL DEF Spec, FailureIsReal

================================================================================
