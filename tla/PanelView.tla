----------------------------- MODULE PanelView -----------------------------
(***************************************************************************)
(* The panels of the client's interface: React components that load a      *)
(* collection of the server (or of the native side) into local state, and  *)
(* change it by calls whose outcome they fold back into that state.  They  *)
(* differ in a few decisions of their code, which a panel descriptor lists.*)
(* A behaviour runs one panel: it mounts, its subject changes, requests    *)
(* are served, refused or lost, and answers arrive in any order.           *)
(***************************************************************************)
EXTENDS NativeApi, Naturals, FiniteSets

CONSTANTS
  Panel,         \* the descriptors to run
  Subject,       \* what a panel can be about: servers, queries, channels
  Item,          \* entries of a collection
  MaxRequests,   \* bound on requests
  MaxChanges     \* bound on changes of the subject and on writes by others

ASSUME PanelAssumption == MaxRequests \in Nat /\ MaxChanges \in Nat

Gone == "no panel"
NoEntry == "no entry"

\* An operation: its call; how the panel takes the outcome over ("reload" the
\* collection, apply it "local"ly, take the "echo" of the server, "optimistic"
\* before the answer, or "nothing"); and what disables it: a call in flight of
\* the "panel" or of the same "call", the entry in the busy "slot", or "none".
\* early: its form stands outside the branch that waits for the first load.
Op(call, after, gate) == [call |-> call, after |-> after, gate |-> gate, early |-> FALSE]
EarlyOp(call, after, gate) == [call |-> call, after |-> after, gate |-> gate, early |-> TRUE]
Ops == [call : Effect,
        after : {"reload", "local", "echo", "optimistic", "nothing"},
        gate : {"panel", "call", "slot", "none"}, early : BOOLEAN]

\* A panel.  stale: what becomes of answers for an earlier subject: the instance
\* is "remount"ed, a "flag" of the effect drops them, or "none".  hides: the
\* operations are offered at once ("no"), when the first load ended ("answered"),
\* or when it succeeded ("value").  rereads: it polls or has a refresh button.
Shows(stale, hides, rereads, ops) ==
  [stale |-> stale, hides |-> hides, rereads |-> rereads, ops |-> ops]
Panels == [stale : {"remount", "flag", "none"}, hides : {"no", "answered", "value"},
           rereads : BOOLEAN, ops : SUBSET Ops]

\* A panel has finitely many buttons; one that is ahead of the server takes one
\* entry back when the call fails, so none of those replaces the collection.
ASSUME DescriptorAssumption ==
  \A p \in Panel :
    /\ p \in Panels /\ IsFiniteSet(p.ops)
    /\ \A op \in p.ops : op.after = "optimistic" => op.call # Replace
ASSUME SubjectAssumption == Item # {} /\ Gone \notin Subject /\ NoEntry \notin Item

VARIABLES
  panel,      \* the descriptor in use
  subject,    \* what the mounted instance is about, or Gone
  instance,   \* number of the mounted instance
  shown,      \* the local state of the instance
  about,      \* the subject whose load it shows, or Gone
  loaded,     \* its first load has ended as hides asks
  slot,       \* the entry named by a busy state of the instance, or NoEntry
  requests,   \* calls under way
  remote,     \* the collection of every subject, at the server
  past,       \* every entry a collection ever held
  sent,       \* requests sent so far
  changes,    \* subject changes and foreign writes so far
  undisturbed \* no answer was lost, and nobody but this instance wrote

panelVars == <<panel, subject, instance, shown, about, loaded, slot, requests, remote, past, sent,
               changes, undisturbed>>

NoOp == Op(Act, "nothing", "none")
Request ==
  [id : Nat, op : Ops, item : Item, gain : BOOLEAN, value : SUBSET Item, subject : Subject,
   instance : Nat, stage : {"sent", "done", "failed", "rereading", "reread", "unread"}]

\* A request starts as a call, or ("rereading") directly as a load.
NewRequest(op, i, gain, stage) ==
  [id |-> sent, op |-> op, item |-> i, gain |-> gain,
   value |-> IF op.call = Rewrite THEN shown ELSE {},
     subject |-> subject, instance |-> instance, stage |-> stage]
FirstLoad(s, n) ==
  [id |-> sent, op |-> NoOp, item |-> CHOOSE i \in Item : TRUE, gain |-> TRUE,
   value |-> {}, subject |-> s, instance |-> n, stage |-> "rereading"]

\* The value a call makes of a collection.
Applied(r, value) ==
  CASE r.op.call = Add -> value \cup {r.item}
    [] r.op.call = Remove -> value \ {r.item}
    [] r.op.call = Patch -> IF r.gain THEN value \cup {r.item} ELSE value \ {r.item}
    [] r.op.call = Replace -> {r.item}
    [] r.op.call = Rewrite -> IF r.gain THEN r.value \cup {r.item} ELSE r.value \ {r.item}
    [] OTHER -> value

PanelInit ==
  /\ panel \in Panel
  /\ subject = Gone /\ instance = 0
  /\ shown = {} /\ about = Gone /\ loaded = FALSE
  /\ slot = NoEntry /\ requests = {}
  /\ remote \in [Subject -> {{}} \cup {{i} : i \in Item}]
  /\ past = remote
  /\ sent = 0 /\ changes = 0 /\ undisturbed = TRUE

-----------------------------------------------------------------------------

\* Mounting, or a new subject: the effect loads.  Under "remount" the old
\* instance is gone with its state; otherwise the state stays until the answer.
Open(s) ==
  /\ subject # s /\ sent < MaxRequests
  /\ IF subject = Gone THEN UNCHANGED changes
     ELSE changes < MaxChanges /\ changes' = changes + 1
  /\ LET fresh == subject = Gone \/ panel.stale = "remount"
         n == IF fresh THEN instance + 1 ELSE instance IN
     /\ instance' = n
     /\ shown' = IF fresh THEN {} ELSE shown
     /\ about' = IF fresh THEN Gone ELSE about
     /\ loaded' = IF fresh THEN FALSE ELSE loaded
     /\ slot' = IF fresh THEN NoEntry ELSE slot
     /\ requests' = requests \cup {FirstLoad(s, n)}
  /\ subject' = s
  /\ sent' = sent + 1
  /\ undisturbed' = (undisturbed /\ \A r \in requests : r.op = NoOp)
  /\ UNCHANGED <<panel, remote, past>>

\* Unmounting: answers of the instance find nobody.
Close ==
  /\ subject # Gone /\ changes < MaxChanges
  /\ subject' = Gone /\ changes' = changes + 1
  /\ shown' = {} /\ about' = Gone /\ loaded' = FALSE /\ slot' = NoEntry
  /\ UNCHANGED <<panel, instance, requests, remote, past, sent, undisturbed>>

\* A tick of the poll, or the refresh button.
Reread ==
  /\ subject # Gone /\ panel.rereads /\ sent < MaxRequests
  /\ requests' = requests \cup {FirstLoad(subject, instance)}
  /\ sent' = sent + 1
  /\ UNCHANGED <<panel, subject, instance, shown, about, loaded, slot, remote, past, changes, undisturbed>>

Mine == {r \in requests : r.instance = instance /\ r.op # NoOp}

\* The button is there and enabled.
Offered(op, i) ==
  /\ panel.hides = "no" \/ op.early \/ loaded
  /\ CASE op.gate = "panel" -> Mine = {}
       [] op.gate = "call" -> \A r \in Mine : r.op # op
       [] op.gate = "slot" -> slot # i
       [] OTHER -> TRUE

Submit(op, i, gain) ==
  /\ subject # Gone /\ sent < MaxRequests
  /\ Offered(op, i)
  /\ LET r == NewRequest(op, i, gain, "sent") IN
     /\ requests' = requests \cup {r}
     /\ shown' = IF op.after = "optimistic" THEN Applied(r, shown) ELSE shown
  /\ slot' = IF op.gate = "slot" THEN i ELSE slot
  /\ sent' = sent + 1
  /\ UNCHANGED <<panel, subject, instance, about, loaded, remote, past, changes, undisturbed>>

-----------------------------------------------------------------------------
(***************************************************************************)
(* The other end.                                                          *)
(***************************************************************************)

Moved(r, stage, value) ==
  requests' = (requests \ {r}) \cup {[r EXCEPT !.stage = stage, !.value = value]}

Serve(r) ==
  /\ r.stage = "sent"
  /\ remote' = [remote EXCEPT ![r.subject] = Applied(r, @)]
  /\ past' = [past EXCEPT ![r.subject] = @ \cup remote'[r.subject]]
  /\ \/ /\ Moved(r, "done", remote'[r.subject])
        /\ UNCHANGED undisturbed
     \/ /\ Moved(r, "failed", {})           \* carried out, answer lost
        /\ undisturbed' = FALSE
  /\ UNCHANGED <<panel, subject, instance, shown, about, loaded, slot, sent, changes>>

Refuse(r) ==
  /\ \/ r.stage = "sent" /\ Moved(r, "failed", {}) /\ UNCHANGED undisturbed
     \/ r.stage = "rereading" /\ Moved(r, "unread", {}) /\ undisturbed' = FALSE
  /\ UNCHANGED <<panel, subject, instance, shown, about, loaded, slot, remote, past, sent, changes>>

ServeLoad(r) ==
  /\ r.stage = "rereading"
  /\ Moved(r, "reread", remote[r.subject])
  /\ UNCHANGED <<panel, subject, instance, shown, about, loaded, slot, remote, past, sent, changes,
                 undisturbed>>

OtherWrites(s, i) ==
  /\ changes < MaxChanges /\ changes' = changes + 1
  /\ \/ i \in remote[s] /\ remote' = [remote EXCEPT ![s] = @ \ {i}]
     \/ i \notin remote[s] /\ remote' = [remote EXCEPT ![s] = @ \cup {i}]
  /\ past' = [past EXCEPT ![s] = @ \cup remote'[s]]
  /\ undisturbed' = FALSE
  /\ UNCHANGED <<panel, subject, instance, shown, about, loaded, slot, requests, sent>>

-----------------------------------------------------------------------------
(***************************************************************************)
(* Answers, in any order.                                                  *)
(***************************************************************************)

Alive(r) == subject # Gone /\ r.instance = instance

\* Mutant: the cleanup of the effect sets no flag.
Wanted_Any(r) == Alive(r)

\* A load's answer is used unless the instance is gone or its flag is set.
Wanted(r) == Alive(r) /\ (r.subject = subject \/ panel.stale = "none")

\* The request is over; whatever entry the slot names, it is emptied.
Drop(r) ==
  /\ requests' = requests \ {r}
  /\ slot' = IF Alive(r) /\ r.op.gate = "slot" THEN NoEntry ELSE slot

\* Mutant: loading is cleared on success only.
LoadAnswered_SuccessOnly(r) ==
  /\ r.stage \in {"reread", "unread"}
  /\ Drop(r)
  /\ shown' = IF Wanted(r) /\ r.stage = "reread" THEN r.value ELSE shown
  /\ about' = IF Wanted(r) /\ r.stage = "reread" THEN r.subject ELSE about
  /\ loaded' = (loaded \/ (Wanted(r) /\ r.stage = "reread"))
  /\ UNCHANGED <<panel, subject, instance, remote, past, sent, changes, undisturbed>>

LoadAnswered(r) ==
  /\ r.stage \in {"reread", "unread"}
  /\ Drop(r)
  /\ shown' = IF Wanted(r) /\ r.stage = "reread" THEN r.value ELSE shown
  /\ about' = IF Wanted(r) /\ r.stage = "reread" THEN r.subject ELSE about
  /\ loaded' = (loaded \/ (Wanted(r) /\ (r.stage = "reread" \/ panel.hides = "answered")))
  /\ UNCHANGED <<panel, subject, instance, remote, past, sent, changes, undisturbed>>

\* Mutant: the outcome of a call is not taken over.
CallAnswered_Forgets(r) ==
  /\ r.stage \in {"done", "failed"}
  /\ Drop(r)
  /\ UNCHANGED <<panel, subject, instance, shown, about, loaded, slot, remote, past, sent, changes, undisturbed>>

\* A call's answer reaches the instance that sent it, whatever its subject is by
\* now.  A reload is part of the call: the gate opens when it has ended.
CallAnswered(r) ==
  /\ r.stage \in {"done", "failed"}
  /\ IF r.stage = "done" /\ r.op.after = "reload"
     THEN Moved(r, "rereading", {}) /\ UNCHANGED slot
     ELSE Drop(r)
  /\ shown' =
       IF ~Alive(r) THEN shown
       ELSE IF r.stage = "failed"
            THEN IF r.op.after # "optimistic" THEN shown
                 ELSE IF r.gain THEN shown \ {r.item} ELSE shown \cup {r.item}
       ELSE IF r.op.after = "local" THEN Applied(r, shown)
       ELSE IF r.op.after = "echo" THEN r.value
       ELSE shown
  /\ UNCHANGED <<panel, subject, instance, about, loaded, remote, past, sent, changes, undisturbed>>

\* An operation on an entry turns what the entry has now; one without an entry
\* names none.
Targets(op) == IF op.call = Act THEN {CHOOSE i \in Item : TRUE}
               ELSE IF op.call = Remove THEN shown ELSE Item

PanelNext ==
  \/ \E s \in Subject : Open(s)
  \/ Close \/ Reread
  \/ \E op \in panel.ops : \E i \in Targets(op) : Submit(op, i, i \notin shown)
  \/ \E r \in requests : Serve(r) \/ Refuse(r) \/ ServeLoad(r) \/ LoadAnswered(r)
                         \/ CallAnswered(r)
  \/ \E s \in Subject, i \in Item : OtherWrites(s, i)

\* Every request is answered in the end: fetch settles.
PanelFairness ==
  WF_panelVars(\E r \in requests : Serve(r) \/ ServeLoad(r) \/ LoadAnswered(r) \/ CallAnswered(r))

-----------------------------------------------------------------------------

PanelTypeOK ==
  /\ panel \in Panels
  /\ subject \in Subject \cup {Gone} /\ instance \in Nat
  /\ shown \subseteq Item /\ about \in Subject \cup {Gone} /\ loaded \in BOOLEAN
  /\ slot \in Item \cup {NoEntry}
  /\ requests \subseteq Request
  /\ remote \in [Subject -> SUBSET Item] /\ past \in [Subject -> SUBSET Item]
  /\ sent \in 0..MaxRequests /\ changes \in 0..MaxChanges

\* Panels that drop what belongs to an earlier subject, and show nothing before
\* the server has it.
Careful(p) ==
  /\ p.stale # "none"
  /\ \A op \in p.ops :
       op.after \in {"reload", "nothing"} \/ (op.after # "optimistic" /\ p.stale = "remount")

\* Once the collection of its subject has arrived, a careful panel keeps showing
\* that one, and no entry that the collection never held: nothing of an earlier
\* subject, whatever order the answers come in.
ShowsItsSubject ==
  Careful(panel) /\ about # Gone =>
    /\ shown \subseteq past[about]
    /\ about # subject => ~undisturbed \/ \E r \in requests : r.subject = subject

\* Panels that run one request at a time.
Serial(p) ==
  /\ p.stale = "remount" /\ p.hides # "no" /\ ~p.rereads
  /\ \/ \A op \in p.ops : op.gate = "panel"
     \/ Cardinality(p.ops) = 1 /\ \A op \in p.ops : op.gate = "call"
  /\ \A op \in p.ops : ~op.early /\ (op.after # "nothing" \/ op.call = Act)

\* A panel that runs one request at a time shows the server's collection whenever
\* it is idle, refused calls and remounts included.
IdleShowsTheServer ==
  Serial(panel) /\ subject # Gone /\ loaded /\ Mine = {} /\ undisturbed
    /\ (\A r \in requests : r.instance # instance)
    => shown = remote[subject]

\* The busy flag that a panel's buttons share admits one call at a time, its
\* reload included.
OneCallPerGate ==
  (\A op \in panel.ops : op.gate = "panel") => Cardinality(Mine) <= 1

\* Panels are well formed, show what they are about, and share one busy flag.
PanelInv == PanelTypeOK /\ ShowsItsSubject /\ OneCallPerGate

\* A panel that clears its loading flag in a finally block stops showing the
\* spinner, even when the load fails.
SpinnerEnds ==
  (panel.hides = "answered" /\ subject # Gone) ~> (loaded \/ subject = Gone)
=============================================================================
