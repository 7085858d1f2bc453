----------------------------- MODULE AtomicHistory -----------------------------
(***************************************************************************)
(* What the history promises its user, without commits, hashes or files:   *)
(* every dashboard has a list of its changes, versions keep showing the    *)
(* state they were made for, a description stays with the change it was    *)
(* written about, and a forget happens at one moment and takes one         *)
(* dashboard away while it leaves every other exactly as it was.           *)
(***************************************************************************)
EXTENDS Naturals

CONSTANTS Keys, Contents, Absent, Names, Owner, Words

VARIABLES
    changes,        \* for each dashboard, its changes: when, and to what
    versions,       \* named states
    descriptions,   \* texts about changes
    clock,          \* the stamp of the last save
    forgets         \* dashboards forgotten so far

abstract == <<changes, versions, descriptions, clock, forgets>>

Init ==
    /\ changes = [k \in Keys |-> {}]
    /\ versions = {} /\ descriptions = {}
    /\ clock = 0 /\ forgets = 0

Latest(k) ==
    IF changes[k] = {} THEN Absent
    ELSE (CHOOSE c \in changes[k] : \A e \in changes[k] : e.at <= c.at).content

Stamps(ks) == {c.at : c \in UNION {changes[k] : k \in ks}}

(* A save changes at least one dashboard.  More than one, too: a save that *)
(* failed half way is completed by the next one.                           *)
Save ==
    \E tree \in [Keys -> Contents \cup {Absent}] :
        /\ \E k \in Keys : tree[k] # Latest(k)
        /\ clock' = clock + 1
        /\ changes' = [k \in Keys |->
                IF tree[k] = Latest(k) THEN changes[k]
                ELSE changes[k] \cup {[at |-> clock + 1, content |-> tree[k]]}]
        /\ UNCHANGED <<versions, descriptions, forgets>>

Describe ==
    \E at \in Stamps(Keys), w \in Words :
        /\ descriptions' = {d \in descriptions : d.at # at} \cup {[at |-> at, text |-> w]}
        /\ UNCHANGED <<changes, versions, clock, forgets>>

Undescribe ==
    \E at \in Stamps(Keys) :
        /\ descriptions' = {d \in descriptions : d.at # at}
        /\ UNCHANGED <<changes, versions, clock, forgets>>

(* A version shows a state its dashboard once had.                         *)
Mark ==
    \E n \in Names, w \in Words :
        /\ \A v \in versions : v.name # n
        /\ \E c \in {Absent} \cup {e.content : e \in changes[Owner[n]]} :
              versions' = versions \cup {[name |-> n, title |-> w, shows |-> c]}
        /\ UNCHANGED <<changes, descriptions, clock, forgets>>

Retitle ==
    \E v \in versions, w \in Words :
        /\ versions' = (versions \ {v}) \cup {[v EXCEPT !.title = w]}
        /\ UNCHANGED <<changes, descriptions, clock, forgets>>

Unmark ==
    \E v \in versions :
        /\ versions' = versions \ {v}
        /\ UNCHANGED <<changes, descriptions, clock, forgets>>

(* The versions of other dashboards stay and show what they showed; only a *)
(* version that showed nothing may go with the commit it stood on.         *)
Forget ==
    \E k \in Keys :
        /\ changes[k] # {}
        /\ changes' = [changes EXCEPT ![k] = {}]
        /\ descriptions' = {d \in descriptions : d.at \in Stamps(Keys \ {k})}
        /\ \E gone \in SUBSET {v \in versions : v.shows = Absent} :
              versions' = {v \in versions \ gone : Owner[v.name] # k}
        /\ forgets' = forgets + 1
        /\ UNCHANGED clock

Next == Save \/ Describe \/ Undescribe \/ Mark \/ Retitle \/ Unmark \/ Forget

Spec == Init /\ [][Next]_abstract
================================================================================
