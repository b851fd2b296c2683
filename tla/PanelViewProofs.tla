-------------------------- MODULE PanelViewProofs --------------------------
(***************************************************************************)
(* The panels' invariants, for every panel that a descriptor can describe, *)
(* and any number of subjects, entries, requests and changes.              *)
(***************************************************************************)
EXTENDS PanelView, FiniteSetTheorems, TLAPS

PanelSpec == PanelInit /\ [][PanelNext]_panelVars

\* The requests of the mounted instance, loads included.
Current == {r \in requests : r.instance = instance}

\* What a call puts into the collection is an entry the collection has held once
\* the call is carried out.
Gains(r) == \/ r.op.call \in {Add, Replace}
            \/ r.op.call \in {Patch, Rewrite} /\ r.gain

\* A request knows its panel's operations; an answer tells only of the past of
\* its subject.
Sound(r) ==
  /\ r.op = NoOp \/ r.op \in panel.ops
  /\ r.instance <= instance
  /\ r.stage \in {"sent", "done", "failed"} => r.op \in panel.ops
  /\ r.stage \in {"done", "reread"} => r.value \subseteq past[r.subject]
  /\ r.stage = "done" /\ Gains(r) => r.item \in past[r.subject]

Requests ==
  /\ \A r \in requests : Sound(r)
  /\ panel.stale = "remount" /\ subject # Gone => \A r \in Current : r.subject = subject

\* What a panel shows is of one subject, and of an earlier one only while the
\* load of the new one is under way.
Loading == \E r \in Current : r.subject = subject /\ r.stage \in {"rereading", "reread"}
RemotePast == \A s \in Subject : remote[s] \subseteq past[s]
NothingUnmounted == subject = Gone => about = Gone
ShownAbout ==
  about # Gone /\ Careful(panel) =>
    /\ shown \subseteq past[about]
    /\ about # subject => panel.stale # "remount" /\ (~undisturbed \/ Loading)
Shown == RemotePast /\ NothingUnmounted /\ ShownAbout

\* The busy flag that all buttons share.
Gated == \A q, r \in Mine : (\A op \in panel.ops : op.gate = "panel") => q = r

\* What a call under way means for a panel that runs one at a time: shown and
\* remote differ by what the call will do to shown, or has done to it.
Undone(r, value) == IF r.gain THEN value \ {r.item} ELSE value \cup {r.item}
Coherent(r) ==
  CASE r.stage \in {"rereading", "reread"} -> r.stage = "reread" => r.value = remote[subject]
    [] r.stage = "sent" ->
         IF r.op.after = "optimistic"
         THEN shown = Applied(r, remote[subject]) /\ Undone(r, shown) = remote[subject]
         ELSE shown = remote[subject]
    [] r.stage = "done" ->
         /\ r.value = remote[subject]
         /\ IF r.op.after = "optimistic" THEN shown = remote[subject]
            ELSE Applied(r, shown) = remote[subject]
    [] r.stage = "failed" ->
         IF r.op.after = "optimistic" THEN Undone(r, shown) = remote[subject]
         ELSE shown = remote[subject]
    [] OTHER -> FALSE

AtMostOne(S) == \A q, r \in S : q = r

\* One request at a time: the first load, which offers the buttons once it is
\* done, and then one call.
OneCurrent ==
  Serial(panel) /\ subject # Gone =>
    AtMostOne(Current) /\ \A r \in Current : loaded <=> r.op # NoOp
InStep ==
  Serial(panel) /\ subject # Gone /\ undisturbed =>
    /\ \A r \in requests \ Current : r.op = NoOp
    /\ Current = {} /\ loaded => shown = remote[subject]
    /\ \A r \in Current : Coherent(r)

PanelIInv ==
  panel \in Panel /\ PanelTypeOK /\ Requests /\ Shown /\ Gated /\ OneCurrent /\ InStep

-----------------------------------------------------------------------------
(***************************************************************************)
(* Types.                                                                  *)
(***************************************************************************)

LEMMA CallNames ==
  /\ {Add, Remove, Patch, Replace, Rewrite, Act} \subseteq Effect
  /\ Act \notin {Add, Remove, Patch, Replace, Rewrite}
  /\ Patch \notin {Add, Remove, Replace, Rewrite, Act}
  /\ Rewrite \notin {Add, Remove, Patch, Replace, Act}
  /\ Replace # Remove /\ Add \notin {Remove, Replace}
  <1> QED
    BY DEF Effect, Add, Remove, Patch, Replace, Rewrite, Act

\* A value that a call makes has entries, and none that it does not gain.
LEMMA AppliedFacts ==
  ASSUME NEW r \in Request, NEW value \in SUBSET Item
  PROVE  /\ Applied(r, value) \in SUBSET Item
         /\ \A S : value \subseteq S /\ r.value \subseteq S /\ (Gains(r) => r.item \in S) =>
              Applied(r, value) \subseteq S
  <1>1. r.item \in Item /\ r.value \in SUBSET Item
    BY DEF Request
  <1>2. CASE r.op.call = Add
    BY <1>1, <1>2, CallNames DEF Applied, Gains
  <1>3. CASE r.op.call = Remove
    BY <1>1, <1>3, CallNames DEF Applied, Gains
  <1>4. CASE r.op.call = Patch
    BY <1>1, <1>4, CallNames DEF Applied, Gains
  <1>5. CASE r.op.call = Replace
    BY <1>1, <1>5, CallNames DEF Applied, Gains
  <1>6. CASE r.op.call = Rewrite
    BY <1>1, <1>6, CallNames DEF Applied, Gains
  <1>7. CASE r.op.call \notin {Add, Remove, Patch, Replace, Rewrite}
    <2>1. Applied(r, value) = value
      BY <1>7 DEF Applied
    <2> QED
      BY <2>1
  <1> QED
    BY <1>2, <1>3, <1>4, <1>5, <1>6, <1>7

LEMMA NoOpType == NoOp \in Ops /\ NoOp.call = Act /\ NoOp.after = "nothing" /\ NoOp.gate = "none"
  <1> QED
    BY CallNames DEF NoOp, Op, Ops

LEMMA SomeItem == (CHOOSE i \in Item : TRUE) \in Item
  <1> QED
    BY SubjectAssumption

\* The requests that the actions make.
LEMMA FirstLoadIs ==
  ASSUME PanelTypeOK, NEW s \in Subject, NEW n \in Nat
  PROVE  /\ FirstLoad(s, n) \in Request
         /\ FirstLoad(s, n).op = NoOp /\ FirstLoad(s, n).subject = s
         /\ FirstLoad(s, n).instance = n /\ FirstLoad(s, n).stage = "rereading"
  <1>1. sent \in Nat
    BY PanelAssumption DEF PanelTypeOK
  <1> QED
    BY <1>1, NoOpType, SomeItem DEF FirstLoad, Request

LEMMA NewRequestIs ==
  ASSUME PanelTypeOK, subject # Gone, NEW op \in panel.ops, NEW i \in Item, NEW gain \in BOOLEAN
  PROVE  LET r == NewRequest(op, i, gain, "sent") IN
         /\ r \in Request
         /\ r.op = op /\ r.item = i /\ r.gain = gain /\ r.subject = subject
         /\ r.instance = instance /\ r.stage = "sent"
         /\ r.value = IF op.call = Rewrite THEN shown ELSE {}
  <1>1. /\ sent \in Nat /\ instance \in Nat
        /\ subject \in Subject /\ shown \in SUBSET Item
    BY PanelAssumption DEF PanelTypeOK
  <1>2. op \in Ops
    BY DEF PanelTypeOK, Panels
  <1>3. (IF op.call = Rewrite THEN shown ELSE {}) \in SUBSET Item
    BY <1>1
  <1> QED
    BY <1>1, <1>2, <1>3 DEF NewRequest, Request

Stages == {"sent", "done", "failed", "rereading", "reread", "unread"}

\* The request that r becomes.
Becomes(r, stage, value) == [r EXCEPT !.stage = stage, !.value = value]
LEMMA BecomesIs ==
  ASSUME NEW r \in Request, NEW stage \in Stages, NEW value \in SUBSET Item
  PROVE  LET q == Becomes(r, stage, value) IN
         /\ q \in Request
         /\ q.stage = stage /\ q.value = value
         /\ q.op = r.op /\ q.item = r.item /\ q.gain = r.gain /\ q.subject = r.subject
         /\ q.instance = r.instance
  <1> QED
    BY DEF Becomes, Request, Stages

LEMMA InitKeeps == PanelInit => PanelIInv
  <1> SUFFICES ASSUME PanelInit
               PROVE  PanelIInv
    OBVIOUS
  <1>1. PanelTypeOK
    <2>1. panel \in Panels
      BY DescriptorAssumption DEF PanelInit
    <2>2. remote \in [Subject -> SUBSET Item] /\ past \in [Subject -> SUBSET Item]
      BY DEF PanelInit
    <2>3. sent \in 0..MaxRequests /\ changes \in 0..MaxChanges /\ instance \in Nat
      BY PanelAssumption DEF PanelInit
    <2> QED
      BY <2>1, <2>2, <2>3 DEF PanelInit, PanelTypeOK
  <1>2. Requests
    BY DEF PanelInit, Requests
  <1>3. Shown
    BY DEF PanelInit, Shown, RemotePast, NothingUnmounted, ShownAbout
  <1>4. Gated
    BY DEF PanelInit, Gated, Mine
  <1>5. OneCurrent /\ InStep /\ panel \in Panel
    BY DEF PanelInit, OneCurrent, InStep
  <1> QED
    BY <1>1, <1>2, <1>3, <1>4, <1>5 DEF PanelIInv

\* What the answer or the loss of a request does to the requests.
LEMMA MovedIs ==
  ASSUME PanelTypeOK, NEW r \in requests, NEW stage \in Stages, NEW value \in SUBSET Item,
         Moved(r, stage, value)
  PROVE  /\ requests' = (requests \ {r}) \cup {Becomes(r, stage, value)}
         /\ requests' \subseteq Request
  <1>1. r \in Request
    BY DEF PanelTypeOK
  <1>2. Becomes(r, stage, value) \in Request
    BY <1>1, BecomesIs
  <1>3. requests' = (requests \ {r}) \cup {Becomes(r, stage, value)}
    BY DEF Moved, Becomes
  <1> QED
    BY <1>2, <1>3 DEF PanelTypeOK

LEMMA DropTypes ==
  ASSUME PanelTypeOK, NEW r \in requests, Drop(r)
  PROVE  /\ requests' = requests \ {r} /\ requests' \subseteq Request
         /\ slot' \in Item \cup {NoEntry}
  <1> QED
    BY DEF Drop, PanelTypeOK

\* What serving a call does at the server.
LEMMA ServeIs ==
  ASSUME PanelTypeOK, NEW r \in requests, Serve(r)
  PROVE  LET s == r.subject IN
         /\ r \in Request /\ s \in Subject /\ r.stage = "sent"
         /\ remote' = [remote EXCEPT ![s] = Applied(r, remote[s])]
         /\ remote'[s] = Applied(r, remote[s]) /\ remote'[s] \in SUBSET Item
         /\ \A t \in Subject : t # s => remote'[t] = remote[t] /\ past'[t] = past[t]
         /\ past'[s] = past[s] \cup remote'[s]
         /\ remote' \in [Subject -> SUBSET Item] /\ past' \in [Subject -> SUBSET Item]
         /\ \/ Moved(r, "done", remote'[s]) /\ undisturbed' = undisturbed
            \/ Moved(r, "failed", {}) /\ undisturbed' = FALSE
  <1> DEFINE s == r.subject
  <1>1. r \in Request /\ s \in Subject
    BY DEF PanelTypeOK, Request
  <1>2. remote \in [Subject -> SUBSET Item] /\ past \in [Subject -> SUBSET Item]
    BY DEF PanelTypeOK
  <1>3. Applied(r, remote[s]) \in SUBSET Item
    BY <1>1, <1>2, AppliedFacts
  <1>4. /\ remote' = [remote EXCEPT ![s] = Applied(r, remote[s])]
        /\ past' = [past EXCEPT ![s] = past[s] \cup remote'[s]]
    BY DEF Serve
  <1>5. /\ r.stage = "sent"
        /\ \/ Moved(r, "done", remote'[s]) /\ undisturbed' = undisturbed
           \/ Moved(r, "failed", {}) /\ undisturbed' = FALSE
    BY DEF Serve
  <1> HIDE DEF s
  <1>6. remote'[s] = Applied(r, remote[s]) /\ remote' \in [Subject -> SUBSET Item]
    BY <1>1, <1>2, <1>3, <1>4
  <1>7. past'[s] = past[s] \cup remote'[s] /\ past' \in [Subject -> SUBSET Item]
    BY <1>1, <1>2, <1>3, <1>4, <1>6
  <1>8. \A t \in Subject : t # s => remote'[t] = remote[t] /\ past'[t] = past[t]
    BY <1>1, <1>2, <1>4
  <1> QED
    BY <1>1, <1>3, <1>4, <1>5, <1>6, <1>7, <1>8 DEF s

LEMMA TypesStep == PanelTypeOK /\ [PanelNext]_panelVars => PanelTypeOK'
  <1> SUFFICES ASSUME PanelTypeOK, [PanelNext]_panelVars
               PROVE  PanelTypeOK'
    OBVIOUS
  <1>1. ASSUME NEW s \in Subject, Open(s)
        PROVE  PanelTypeOK'
    <2> DEFINE n == IF subject = Gone \/ panel.stale = "remount" THEN instance + 1 ELSE instance
    <2>1. n \in Nat
      BY DEF PanelTypeOK
    <2>2. instance' = n /\ requests' = requests \cup {FirstLoad(s, n)}
      BY <1>1 DEF Open
    <2> HIDE DEF n
    <2>3. requests' \subseteq Request
      BY <2>1, <2>2, FirstLoadIs DEF PanelTypeOK
    <2>4. sent' \in 0..MaxRequests /\ changes' \in 0..MaxChanges
      BY <1>1, PanelAssumption DEF Open, PanelTypeOK
    <2>5. /\ shown' \subseteq Item /\ about' \in Subject \cup {Gone} /\ slot' \in Item \cup {NoEntry}
          /\ panel' \in Panels /\ subject' \in Subject \cup {Gone}
      BY <1>1 DEF Open, PanelTypeOK
    <2>6. loaded' \in BOOLEAN
      BY <1>1, Zenon DEF Open, PanelTypeOK
    <2>7. remote' \in [Subject -> SUBSET Item] /\ past' \in [Subject -> SUBSET Item]
      BY <1>1 DEF Open, PanelTypeOK
    <2> QED
      BY <2>1, <2>2, <2>3, <2>4, <2>5, <2>6, <2>7 DEF PanelTypeOK
  <1>2. CASE Close
    <2>1. changes' \in 0..MaxChanges
      BY <1>2, PanelAssumption DEF Close, PanelTypeOK
    <2> QED
      BY <1>2, <2>1 DEF Close, PanelTypeOK
  <1>3. CASE Reread
    <2>1. FirstLoad(subject, instance) \in Request
      BY <1>3, FirstLoadIs DEF Reread, PanelTypeOK
    <2>2. sent' \in 0..MaxRequests
      BY <1>3, PanelAssumption DEF Reread, PanelTypeOK
    <2> QED
      BY <1>3, <2>1, <2>2 DEF Reread, PanelTypeOK
  <1>4. ASSUME NEW op \in panel.ops, NEW i \in Targets(op), Submit(op, i, i \notin shown)
        PROVE  PanelTypeOK'
    <2> DEFINE r == NewRequest(op, i, i \notin shown, "sent")
    <2>1. i \in Item
      BY SomeItem DEF Targets, PanelTypeOK
    <2>2. subject # Gone /\ (i \notin shown) \in BOOLEAN
      BY <1>4 DEF Submit
    <2>3. r \in Request
      BY <2>1, <2>2, NewRequestIs
    <2>4. /\ requests' = requests \cup {r}
          /\ shown' = IF op.after = "optimistic" THEN Applied(r, shown) ELSE shown
      BY <1>4 DEF Submit
    <2> HIDE DEF r
    <2>5. shown' \subseteq Item
      BY <2>3, <2>4, AppliedFacts DEF PanelTypeOK
    <2>6. sent' \in 0..MaxRequests
      BY <1>4, PanelAssumption DEF Submit, PanelTypeOK
    <2> QED
      BY <1>4, <2>1, <2>3, <2>4, <2>5, <2>6 DEF Submit, PanelTypeOK
  <1>5. ASSUME NEW r \in requests, Serve(r)
        PROVE  PanelTypeOK'
    <2>1. requests' \subseteq Request
      <3>1. /\ Moved(r, "done", remote'[r.subject]) \/ Moved(r, "failed", {})
            /\ remote'[r.subject] \in SUBSET Item /\ {} \in SUBSET Item
        BY <1>5, ServeIs
      <3>2. "done" \in Stages /\ "failed" \in Stages
        BY DEF Stages
      <3> DEFINE value == remote'[r.subject]
      <3> HIDE DEF value
      <3>3. CASE Moved(r, "done", value)
        BY <3>1, <3>2, <3>3, MovedIs DEF value
      <3>4. CASE Moved(r, "failed", {})
        BY <3>1, <3>2, <3>4, MovedIs
      <3> QED
        BY <3>1, <3>3, <3>4 DEF value
    <2>2. remote' \in [Subject -> SUBSET Item] /\ past' \in [Subject -> SUBSET Item]
      BY <1>5, ServeIs
    <2> QED
      BY <1>5, <2>1, <2>2 DEF Serve, PanelTypeOK
  <1>6. ASSUME NEW r \in requests, Refuse(r)
        PROVE  PanelTypeOK'
    <2>1. requests' \subseteq Request
      BY <1>6, MovedIs DEF Refuse, Stages
    <2> QED
      BY <1>6, <2>1 DEF Refuse, PanelTypeOK
  <1>7. ASSUME NEW r \in requests, ServeLoad(r)
        PROVE  PanelTypeOK'
    <2>1. remote[r.subject] \in SUBSET Item
      BY DEF PanelTypeOK, Request
    <2>2. requests' \subseteq Request
      BY <1>7, <2>1, MovedIs DEF ServeLoad, Stages
    <2> QED
      BY <1>7, <2>2 DEF ServeLoad, PanelTypeOK
  <1>8. ASSUME NEW r \in requests, LoadAnswered(r)
        PROVE  PanelTypeOK'
    <2>1. requests' \subseteq Request /\ slot' \in Item \cup {NoEntry}
      BY <1>8, DropTypes DEF LoadAnswered
    <2>2. r.value \in SUBSET Item /\ r.subject \in Subject
      BY DEF PanelTypeOK, Request
    <2>3. shown' \subseteq Item /\ about' \in Subject \cup {Gone}
      BY <1>8, <2>2 DEF LoadAnswered, PanelTypeOK
    <2>4. loaded' \in BOOLEAN
      BY <1>8, Zenon DEF LoadAnswered, PanelTypeOK
    <2> QED
      BY <1>8, <2>1, <2>3, <2>4 DEF LoadAnswered, PanelTypeOK
  <1>9. ASSUME NEW r \in requests, CallAnswered(r)
        PROVE  PanelTypeOK'
    <2>1. requests' \subseteq Request /\ slot' \in Item \cup {NoEntry}
      <3>1. CASE Drop(r)
        BY <3>1, DropTypes
      <3>2. CASE Moved(r, "rereading", {}) /\ slot' = slot
        BY <3>2, MovedIs DEF Stages, PanelTypeOK
      <3> QED
        BY <1>9, <3>1, <3>2 DEF CallAnswered
    <2>2. /\ r.value \in SUBSET Item /\ r.item \in Item
          /\ shown \in SUBSET Item /\ Applied(r, shown) \in SUBSET Item
      BY AppliedFacts DEF PanelTypeOK, Request
    <2>3. shown' \subseteq Item
      BY <1>9, <2>2 DEF CallAnswered
    <2> QED
      BY <1>9, <2>1, <2>3 DEF CallAnswered, PanelTypeOK
  <1>10. ASSUME NEW s \in Subject, NEW i \in Item, OtherWrites(s, i)
         PROVE  PanelTypeOK'
    <2>1. changes' \in 0..MaxChanges
      BY <1>10, PanelAssumption DEF OtherWrites, PanelTypeOK
    <2>2. remote' \in [Subject -> SUBSET Item]
      BY <1>10 DEF OtherWrites, PanelTypeOK
    <2>3. past' \in [Subject -> SUBSET Item]
      BY <1>10, <2>2 DEF OtherWrites, PanelTypeOK
    <2> QED
      BY <1>10, <2>1, <2>2, <2>3 DEF OtherWrites, PanelTypeOK
  <1>11. CASE UNCHANGED panelVars
    BY <1>11 DEF panelVars, PanelTypeOK
  <1> QED
    BY <1>1, <1>2, <1>3, <1>4, <1>5, <1>6, <1>7, <1>8, <1>9, <1>10, <1>11 DEF PanelNext

-----------------------------------------------------------------------------
(***************************************************************************)
(* Requests.                                                               *)
(***************************************************************************)

\* No step changes the descriptor, forgets an entry, or goes back to an earlier
\* instance.
LEMMA Forward ==
  ASSUME PanelTypeOK, [PanelNext]_panelVars
  PROVE  /\ panel' = panel /\ instance <= instance'
         /\ \A s \in Subject : past[s] \subseteq past'[s]
  <1>1. instance \in Nat
    BY DEF PanelTypeOK
  <1>2. ASSUME NEW r \in requests, Serve(r)
        PROVE  /\ panel' = panel /\ instance' = instance
               /\ \A s \in Subject : past[s] \subseteq past'[s]
    <2>1. \A s \in Subject : past[s] \subseteq past'[s]
      BY <1>2, ServeIs
    <2> QED
      BY <1>2, <2>1 DEF Serve
  <1>3. ASSUME NEW s \in Subject, NEW i \in Item, OtherWrites(s, i)
        PROVE  /\ panel' = panel /\ instance' = instance
               /\ \A t \in Subject : past[t] \subseteq past'[t]
    BY <1>3 DEF OtherWrites, PanelTypeOK
  <1>4. ASSUME NEW s \in Subject, Open(s)
        PROVE  panel' = panel /\ past' = past /\ instance <= instance'
    BY <1>1, <1>4 DEF Open
  <1>5. CASE Close \/ Reread \/ UNCHANGED panelVars
    BY <1>1, <1>5 DEF Close, Reread, panelVars
  <1>6. ASSUME NEW op \in panel.ops, NEW i \in Targets(op), Submit(op, i, i \notin shown)
        PROVE  panel' = panel /\ past' = past /\ instance' = instance
    BY <1>6 DEF Submit
  <1>7. ASSUME NEW r \in requests,
               Refuse(r) \/ ServeLoad(r) \/ LoadAnswered(r) \/ CallAnswered(r)
        PROVE  panel' = panel /\ past' = past /\ instance' = instance
    BY <1>7 DEF Refuse, ServeLoad, LoadAnswered, CallAnswered
  <1> QED
    BY <1>1, <1>2, <1>3, <1>4, <1>5, <1>6, <1>7 DEF PanelNext

LEMMA SoundStays ==
  ASSUME NEW r \in Request, Sound(r), instance \in Nat, instance' \in Nat,
         panel' = panel, instance <= instance',
         \A s \in Subject : past[s] \subseteq past'[s]
  PROVE  Sound(r)'
  <1>1. r.subject \in Subject /\ r.instance \in Nat
    BY DEF Request
  <1>2. past[r.subject] \subseteq past'[r.subject]
    BY <1>1
  <1>3. r.instance <= instance'
    BY <1>1 DEF Sound
  <1> QED
    BY <1>2, <1>3 DEF Sound

\* A request that moves on keeps what it is about.
LEMMA MovedSound ==
  ASSUME PanelTypeOK, PanelTypeOK', [PanelNext]_panelVars, Requests,
         NEW r \in requests, NEW stage \in Stages, NEW value \in SUBSET Item,
         Moved(r, stage, value), instance' = instance, subject' = subject,
         Sound(Becomes(r, stage, value))'
  PROVE  Requests'
  <1> DEFINE q == Becomes(r, stage, value)
  <1>1. requests' = (requests \ {r}) \cup {q} /\ r \in Request
    BY MovedIs DEF PanelTypeOK
  <1>2. q.subject = r.subject /\ q.instance = r.instance
    BY <1>1, BecomesIs
  <1>3. \A p \in requests : Sound(p)'
    BY SoundStays, Forward DEF Requests, PanelTypeOK
  <1>4. panel' = panel
    BY Forward
  <1>5. Sound(q)'
    OBVIOUS
  <1> HIDE DEF q
  <1>6. \A p \in requests' : Sound(p)'
    BY <1>1, <1>3, <1>5
  <1>7. \A p \in Current' : \E o \in Current : p.subject = o.subject
    BY <1>1, <1>2 DEF Current
  <1> QED
    BY <1>4, <1>6, <1>7 DEF Requests

LEMMA DroppedSound ==
  ASSUME PanelTypeOK, PanelTypeOK', [PanelNext]_panelVars, Requests,
         requests' \subseteq requests, instance' = instance, subject' \in {subject, Gone}
  PROVE  Requests'
  <1>1. \A p \in requests : Sound(p)'
    BY SoundStays, Forward DEF Requests, PanelTypeOK
  <1>2. panel' = panel
    BY Forward
  <1> QED
    BY <1>1, <1>2 DEF Requests, Current

\* A new request is about the subject of its instance.
LEMMA SentSound ==
  ASSUME PanelTypeOK, PanelTypeOK', [PanelNext]_panelVars, Requests,
         NEW r \in Request, requests' = requests \cup {r},
         r.op \in panel.ops \/ (r.op = NoOp /\ r.stage = "rereading"),
         r.stage \in {"sent", "rereading"},
         r.instance = instance', r.subject = subject',
         \/ instance' = instance /\ (subject' = subject \/ panel.stale # "remount")
         \/ instance' > instance
  PROVE  Requests'
  <1>1. \A p \in requests : Sound(p)'
    BY SoundStays, Forward DEF Requests, PanelTypeOK
  <1>2. panel' = panel /\ instance' \in Nat /\ instance \in Nat
    BY Forward DEF PanelTypeOK
  <1>3. Sound(r)'
    BY <1>2 DEF Sound
  <1>4. \A p \in requests : p \in Request /\ p.instance <= instance
    BY DEF Requests, Sound, PanelTypeOK
  <1>5. \A p \in requests : p.instance \in Nat
    BY <1>4 DEF Request
  <1>6. CASE instance' > instance
    <2>1. Current' = {r}
      BY <1>2, <1>4, <1>5, <1>6 DEF Current
    <2> QED
      BY <1>1, <1>3, <2>1 DEF Requests
  <1>7. CASE instance' = instance /\ (subject' = subject \/ panel.stale # "remount")
    <2>1. Current' = Current \cup {r}
      BY <1>7 DEF Current
    <2>2. subject \in Subject \cup {Gone} /\ r.subject \in Subject /\ Gone \notin Subject
      BY SubjectAssumption DEF PanelTypeOK, Request
    <2> QED
      BY <1>1, <1>2, <1>3, <1>7, <2>1, <2>2 DEF Requests
  <1> QED
    BY <1>6, <1>7

LEMMA RequestsStep ==
  ASSUME PanelTypeOK, PanelTypeOK', Requests, Shown, [PanelNext]_panelVars
  PROVE  Requests'
  <1>1. ASSUME NEW s \in Subject, Open(s)
        PROVE  Requests'
    <2>1. instance \in Nat /\ instance' \in Nat
      BY DEF PanelTypeOK
    <2>2. requests' = requests \cup {FirstLoad(s, instance')} /\ subject' = s
      BY <1>1 DEF Open
    <2>3. instance' > instance \/ (instance' = instance /\ panel.stale # "remount")
      BY <1>1, <2>1 DEF Open
    <2> QED
      BY <2>1, <2>2, <2>3, FirstLoadIs, SentSound
  <1>2. CASE Close
    BY <1>2, DroppedSound DEF Close
  <1>3. CASE Reread
    <2>1. subject \in Subject /\ instance \in Nat
      BY <1>3 DEF Reread, PanelTypeOK
    <2>2. /\ requests' = requests \cup {FirstLoad(subject, instance)}
          /\ instance' = instance /\ subject' = subject
      BY <1>3 DEF Reread
    <2> QED
      BY <2>1, <2>2, FirstLoadIs, SentSound
  <1>4. ASSUME NEW op \in panel.ops, NEW i \in Targets(op), Submit(op, i, i \notin shown)
        PROVE  Requests'
    <2> DEFINE g == i \notin shown
               r == NewRequest(op, i, g, "sent")
    <2>1. i \in Item
      BY SomeItem DEF Targets, PanelTypeOK
    <2>2. subject # Gone /\ g \in BOOLEAN /\ Submit(op, i, g)
      BY <1>4 DEF Submit
    <2> HIDE DEF g
    <2>3. /\ r \in Request /\ r.op = op /\ r.subject = subject /\ r.instance = instance
          /\ r.stage = "sent"
      BY <2>1, <2>2, NewRequestIs
    <2>4. requests' = requests \cup {r} /\ instance' = instance /\ subject' = subject
      BY <2>2 DEF Submit
    <2> HIDE DEF r
    <2> QED
      BY <2>3, <2>4, SentSound
  <1>5. ASSUME NEW r \in requests, Serve(r)
        PROVE  Requests'
    <2> PICK value \in SUBSET Item : value = remote'[r.subject]
      BY <1>5, ServeIs
    <2>1. /\ Moved(r, "done", value) \/ Moved(r, "failed", {})
          /\ value \in SUBSET Item /\ {} \in SUBSET Item
          /\ value = Applied(r, remote[r.subject])
          /\ past'[r.subject] = past[r.subject] \cup value
          /\ r \in Request /\ r.stage = "sent" /\ r.subject \in Subject
      BY <1>5, ServeIs
    <2>2. "done" \in Stages /\ "failed" \in Stages
      BY DEF Stages
    <2>3. Sound(r)
      BY DEF Requests
    <2>4. Sound(r)'
      BY <2>1, <2>3, SoundStays, Forward DEF PanelTypeOK
    <2>5. instance' = instance /\ subject' = subject
      BY <1>5 DEF Serve
    <2>6. Gains(r) => r.item \in value
      BY <2>1, CallNames DEF Gains, Applied
    <2>7. CASE Moved(r, "done", value)
      <3> DEFINE q == Becomes(r, "done", value)
      <3>1. /\ q.stage = "done" /\ q.value = value /\ q.op = r.op /\ q.item = r.item
            /\ q.gain = r.gain /\ q.subject = r.subject /\ q.instance = r.instance
        BY <2>1, <2>2, BecomesIs
      <3> HIDE DEF q
      <3>2. Gains(q) => Gains(r)
        BY <3>1 DEF Gains
      <3>3. Sound(q)'
        BY <2>1, <2>4, <2>6, <3>1, <3>2 DEF Sound
      <3> QED
        BY <2>1, <2>2, <2>5, <2>7, <3>3, MovedSound DEF q
    <2>8. CASE Moved(r, "failed", {})
      <3> DEFINE q == Becomes(r, "failed", {})
      <3>1. /\ q.stage = "failed" /\ q.op = r.op /\ q.subject = r.subject
            /\ q.instance = r.instance
        BY <2>1, <2>2, BecomesIs
      <3> HIDE DEF q
      <3>2. Sound(q)'
        BY <2>1, <2>4, <3>1 DEF Sound
      <3> QED
        BY <2>1, <2>2, <2>5, <2>8, <3>2, MovedSound DEF q
    <2> QED
      BY <2>1, <2>7, <2>8
  <1>6. ASSUME NEW r \in requests, NEW stage \in {"failed", "unread"}, Moved(r, stage, {}),
               stage = "failed" => r.stage = "sent",
               instance' = instance, subject' = subject
        PROVE  Requests'
    <2> DEFINE q == Becomes(r, stage, {})
    <2>1. stage \in Stages /\ {} \in SUBSET Item /\ r \in Request
      BY DEF Stages, PanelTypeOK
    <2>2. q.stage = stage /\ q.op = r.op /\ q.instance = r.instance
      BY <2>1, BecomesIs
    <2>3. Sound(r)'
      BY <2>1, SoundStays, Forward DEF PanelTypeOK, Requests
    <2> HIDE DEF q
    <2>4. Sound(q)'
      BY <1>6, <2>2, <2>3 DEF Sound
    <2> QED
      BY <1>6, <2>1, <2>4, MovedSound DEF q
  <1>7. ASSUME NEW r \in requests, Refuse(r)
        PROVE  Requests'
    BY <1>6, <1>7 DEF Refuse
  <1>8. ASSUME NEW r \in requests, ServeLoad(r)
        PROVE  Requests'
    <2> PICK value \in SUBSET Item : value = remote[r.subject]
      BY DEF PanelTypeOK, Request
    <2> DEFINE q == Becomes(r, "reread", value)
    <2>1. r \in Request /\ r.subject \in Subject /\ "reread" \in Stages
      BY DEF PanelTypeOK, Request, Stages
    <2>2. value \subseteq past[r.subject]
      BY <2>1 DEF Shown, RemotePast
    <2>3. /\ q.stage = "reread" /\ q.op = r.op /\ q.instance = r.instance /\ q.value = value
          /\ q.subject = r.subject
      BY <2>1, BecomesIs
    <2>4. Sound(r)'
      BY <2>1, SoundStays, Forward DEF PanelTypeOK, Requests
    <2>5. Moved(r, "reread", value) /\ instance' = instance /\ subject' = subject /\ past' = past
      BY <1>8 DEF ServeLoad
    <2> HIDE DEF q
    <2>6. Sound(q)'
      BY <2>2, <2>3, <2>4, <2>5 DEF Sound
    <2> QED
      BY <2>1, <2>5, <2>6, MovedSound DEF q
  <1>9. ASSUME NEW r \in requests, LoadAnswered(r)
        PROVE  Requests'
    BY <1>9, DropTypes, DroppedSound DEF LoadAnswered
  <1>10. ASSUME NEW r \in requests, CallAnswered(r)
         PROVE  Requests'
    <2>1. instance' = instance /\ subject' = subject
      BY <1>10 DEF CallAnswered
    <2>2. CASE Drop(r)
      BY <2>1, <2>2, DropTypes, DroppedSound
    <2>3. CASE Moved(r, "rereading", {})
      <3> DEFINE q == Becomes(r, "rereading", {})
      <3>1. "rereading" \in Stages /\ {} \in SUBSET Item /\ r \in Request
        BY DEF Stages, PanelTypeOK
      <3>2. q.stage = "rereading" /\ q.op = r.op /\ q.instance = r.instance
        BY <3>1, BecomesIs
      <3>3. Sound(r)'
        BY <3>1, SoundStays, Forward DEF PanelTypeOK, Requests
      <3> HIDE DEF q
      <3>4. Sound(q)'
        BY <3>2, <3>3 DEF Sound
      <3> QED
        BY <2>1, <2>3, <3>1, <3>4, MovedSound DEF q
    <2> QED
      BY <1>10, <2>2, <2>3 DEF CallAnswered
  <1>11. ASSUME NEW s \in Subject, NEW i \in Item, OtherWrites(s, i)
         PROVE  Requests'
    BY <1>11, DroppedSound DEF OtherWrites
  <1>12. CASE UNCHANGED panelVars
    BY <1>12, DroppedSound DEF panelVars
  <1> QED
    BY <1>1, <1>2, <1>3, <1>4, <1>5, <1>7, <1>8, <1>9, <1>10, <1>11, <1>12 DEF PanelNext

-----------------------------------------------------------------------------
(***************************************************************************)
(* What is shown.                                                          *)
(***************************************************************************)

LEMMA StillLoading ==
  ASSUME Loading, subject' = subject, instance' = instance,
         \A w \in requests : w.stage \in {"rereading", "reread"} => w \in requests'
  PROVE  Loading'
  <1> QED
    BY DEF Loading, Current

\* Nothing shown changes, and no load is lost.
LEMMA ShownStays ==
  ASSUME PanelTypeOK, ShownAbout,
         panel' = panel, subject' = subject, instance' = instance, about' = about,
         shown' = shown \/ ~Careful(panel),
         \A s \in Subject : past[s] \subseteq past'[s],
         undisturbed' => undisturbed,
         \/ ~undisturbed'
         \/ \A w \in requests : w.stage \in {"rereading", "reread"} => w \in requests'
  PROVE  ShownAbout'
  <1> SUFFICES ASSUME about # Gone, Careful(panel)
               PROVE  /\ shown' \subseteq past'[about]
                      /\ about # subject =>
                           panel.stale # "remount" /\ (~undisturbed' \/ Loading')
    BY DEF ShownAbout
  <1>1. about \in Subject /\ shown' = shown
    BY DEF PanelTypeOK
  <1>2. shown \subseteq past[about] /\ past[about] \subseteq past'[about]
    BY <1>1 DEF ShownAbout
  <1>3. about # subject => panel.stale # "remount" /\ (~undisturbed \/ Loading)
    BY DEF ShownAbout
  <1>4. ~undisturbed' \/ (Loading => Loading')
    BY StillLoading
  <1> QED
    BY <1>1, <1>2, <1>3, <1>4

LEMMA AboutStep ==
  ASSUME PanelTypeOK, Requests, NothingUnmounted, ShownAbout, [PanelNext]_panelVars
  PROVE  ShownAbout'
  <1>0. panel' = panel /\ \A s \in Subject : past[s] \subseteq past'[s]
    BY Forward
  <1>1. ASSUME NEW s \in Subject, Open(s)
        PROVE  ShownAbout'
    <2>1. CASE subject = Gone \/ panel.stale = "remount"
      BY <1>1, <2>1 DEF Open, ShownAbout
    <2>2. CASE subject # Gone /\ panel.stale # "remount"
      <3>1. /\ requests' = requests \cup {FirstLoad(s, instance)} /\ instance' = instance
            /\ subject' = s /\ about' = about /\ shown' = shown /\ past' = past
        BY <1>1, <2>2 DEF Open
      <3>2. /\ FirstLoad(s, instance).instance = instance
            /\ FirstLoad(s, instance).subject = s
            /\ FirstLoad(s, instance).stage = "rereading"
        BY FirstLoadIs DEF PanelTypeOK
      <3>3. Loading'
        BY <3>1, <3>2 DEF Loading, Current
      <3> QED
        BY <1>0, <2>2, <3>1, <3>3 DEF ShownAbout
    <2> QED
      BY <2>1, <2>2
  <1>2. CASE Close
    BY <1>2 DEF Close, ShownAbout
  <1>3. CASE Reread
    BY <1>0, <1>3, ShownStays DEF Reread
  <1>4. ASSUME NEW op \in panel.ops, NEW i \in Targets(op), Submit(op, i, i \notin shown)
        PROVE  ShownAbout'
    <2>1. shown' = shown \/ ~Careful(panel)
      BY <1>4 DEF Submit, Careful
    <2>2. /\ subject' = subject /\ instance' = instance /\ about' = about
          /\ undisturbed' = undisturbed /\ requests \subseteq requests'
      BY <1>4 DEF Submit
    <2> QED
      BY <1>0, <2>1, <2>2, ShownStays
  <1>5. ASSUME NEW r \in requests, Serve(r)
        PROVE  ShownAbout'
    <2>1. /\ subject' = subject /\ instance' = instance /\ about' = about /\ shown' = shown
          /\ undisturbed' => undisturbed
      BY <1>5 DEF Serve
    <2>2. requests \ {r} \subseteq requests' /\ r.stage = "sent"
      BY <1>5 DEF Serve, Moved
    <2> QED
      BY <1>0, <2>1, <2>2, ShownStays
  <1>6. ASSUME NEW r \in requests, Refuse(r)
        PROVE  ShownAbout'
    <2>1. /\ subject' = subject /\ instance' = instance /\ about' = about /\ shown' = shown
          /\ undisturbed' => undisturbed
      BY <1>6 DEF Refuse
    <2>2. requests \ {r} \subseteq requests' /\ (r.stage = "sent" \/ ~undisturbed')
      BY <1>6 DEF Refuse, Moved
    <2> QED
      BY <1>0, <2>1, <2>2, ShownStays
  <1>7. ASSUME NEW r \in requests, ServeLoad(r)
        PROVE  ShownAbout'
    <2> DEFINE q == Becomes(r, "reread", remote[r.subject])
    <2>1. /\ subject' = subject /\ instance' = instance /\ about' = about /\ shown' = shown
          /\ undisturbed' = undisturbed /\ past' = past
      BY <1>7 DEF ServeLoad
    <2>2. /\ requests' = (requests \ {r}) \cup {q}
          /\ q.subject = r.subject /\ q.instance = r.instance /\ q.stage = "reread"
      <3>1. remote[r.subject] \in SUBSET Item /\ "reread" \in Stages /\ r \in Request
        BY DEF PanelTypeOK, Request, Stages
      <3> QED
        BY <1>7, <3>1, BecomesIs, MovedIs DEF ServeLoad
    <2> HIDE DEF q
    <2>3. Loading => Loading'
      <3> SUFFICES ASSUME NEW w \in Current, w.subject = subject,
                          w.stage \in {"rereading", "reread"}
                   PROVE  Loading'
        BY DEF Loading
      <3>1. CASE w = r
        BY <2>1, <2>2, <3>1 DEF Loading, Current
      <3>2. CASE w # r
        BY <2>1, <2>2, <3>2 DEF Loading, Current
      <3> QED
        BY <3>1, <3>2
    <2> QED
      BY <1>0, <2>1, <2>3 DEF ShownAbout
  <1>8. ASSUME NEW r \in requests, LoadAnswered(r)
        PROVE  ShownAbout'
    <2>1. /\ subject' = subject /\ instance' = instance /\ undisturbed' = undisturbed
          /\ past' = past /\ requests' = requests \ {r} /\ r.stage \in {"reread", "unread"}
      BY <1>8, DropTypes DEF LoadAnswered
    <2>2. CASE Wanted(r) /\ r.stage = "reread"
      <3>1. shown' = r.value /\ about' = r.subject
        BY <1>8, <2>2 DEF LoadAnswered
      <3>2. r.value \subseteq past[r.subject]
        BY <2>2 DEF Requests, Sound
      <3>3. Careful(panel) => r.subject = subject
        BY <2>2 DEF Careful, Wanted
      <3> QED
        BY <1>0, <2>1, <3>1, <3>2, <3>3 DEF ShownAbout
    <2>3. CASE ~(Wanted(r) /\ r.stage = "reread")
      <3>1. shown' = shown /\ about' = about
        BY <1>8, <2>3 DEF LoadAnswered
      <3>2. about # Gone /\ Loading => Loading'
        <4> SUFFICES ASSUME about # Gone, NEW w \in Current, w.subject = subject,
                            w.stage \in {"rereading", "reread"}
                     PROVE  Loading'
          BY DEF Loading
        <4>1. ASSUME w = r
              PROVE  FALSE
          <5>1. r.stage = "reread" /\ r.subject = subject /\ r.instance = instance
            BY <2>1, <4>1 DEF Current
          <5>2. subject # Gone
            BY DEF NothingUnmounted
          <5> QED
            BY <2>3, <5>1, <5>2 DEF Wanted, Alive
        <4> QED
          BY <2>1, <4>1 DEF Loading, Current
      <3> QED
        BY <1>0, <2>1, <3>1, <3>2 DEF ShownAbout
    <2> QED
      BY <2>2, <2>3
  <1>9. ASSUME NEW r \in requests, CallAnswered(r)
        PROVE  ShownAbout'
    <2>1. /\ subject' = subject /\ instance' = instance /\ undisturbed' = undisturbed
          /\ past' = past /\ about' = about /\ r.stage \in {"done", "failed"}
      BY <1>9 DEF CallAnswered
    <2>2. requests \ {r} \subseteq requests'
      BY <1>9 DEF CallAnswered, Moved, Drop
    <2>3. r \in Request /\ Sound(r) /\ r.op \in panel.ops
      BY <2>1 DEF PanelTypeOK, Requests, Sound
    <2>4. CASE shown' = shown
      BY <1>0, <2>1, <2>2, <2>4, ShownStays
    <2>5. CASE shown' # shown /\ Careful(panel) /\ about # Gone
      <3>1. r.op.after # "optimistic"
        BY <2>3, <2>5 DEF Careful
      <3>2. /\ Alive(r) /\ r.stage = "done" /\ r.op.after \in {"local", "echo"}
            /\ shown' = Applied(r, shown) \/ shown' = r.value
        BY <1>9, <2>1, <2>5, <3>1 DEF CallAnswered
      <3>3. panel.stale = "remount"
        BY <2>3, <2>5, <3>2 DEF Careful
      <3>4. about = subject /\ r.subject = subject
        BY <2>5, <3>2, <3>3 DEF ShownAbout, Requests, Current, Alive
      <3>5. shown \subseteq past[subject] /\ r.value \subseteq past[subject]
        BY <2>3, <2>5, <3>2, <3>4 DEF ShownAbout, Sound
      <3>6. Gains(r) => r.item \in past[subject]
        BY <2>3, <3>2, <3>4 DEF Sound
      <3>7. Applied(r, shown) \subseteq past[subject]
        <4>1. shown \in SUBSET Item
          BY DEF PanelTypeOK
        <4> QED
          BY <2>3, <3>5, <3>6, <4>1, AppliedFacts
      <3> QED
        BY <2>1, <3>2, <3>4, <3>5, <3>7 DEF ShownAbout
    <2>6. CASE shown' # shown /\ ~(Careful(panel) /\ about # Gone)
      BY <1>0, <2>1, <2>6 DEF ShownAbout
    <2> QED
      BY <2>4, <2>5, <2>6
  <1>10. ASSUME NEW s \in Subject, NEW i \in Item, OtherWrites(s, i)
         PROVE  ShownAbout'
    BY <1>0, <1>10, ShownStays DEF OtherWrites
  <1>11. CASE UNCHANGED panelVars
    BY <1>0, <1>11, ShownStays DEF panelVars
  <1> QED
    BY <1>1, <1>2, <1>3, <1>4, <1>5, <1>6, <1>7, <1>8, <1>9, <1>10, <1>11 DEF PanelNext

LEMMA ShownStep ==
  ASSUME PanelTypeOK, Requests, Shown, [PanelNext]_panelVars
  PROVE  Shown'
  <1>1. RemotePast'
    <2>1. CASE remote' = remote
      BY <2>1, Forward DEF Shown, RemotePast
    <2>2. ASSUME NEW r \in requests, Serve(r)
          PROVE  RemotePast'
      <3>1. \A s \in Subject :
              \/ s = r.subject /\ past'[s] = past[s] \cup remote'[s]
              \/ remote'[s] = remote[s] /\ past'[s] = past[s]
        BY <2>2, ServeIs
      <3> QED
        BY <3>1 DEF Shown, RemotePast
    <2>3. ASSUME NEW s \in Subject, NEW i \in Item, OtherWrites(s, i)
          PROVE  RemotePast'
      <3>1. past' = [past EXCEPT ![s] = past[s] \cup remote'[s]]
        BY <2>3 DEF OtherWrites
      <3>2. \A t \in Subject : t # s => remote'[t] = remote[t]
        BY <2>3 DEF OtherWrites, PanelTypeOK
      <3> QED
        BY <3>1, <3>2 DEF Shown, RemotePast, PanelTypeOK
    <2>4. ASSUME NEW r \in requests, Refuse(r) \/ ServeLoad(r) \/ LoadAnswered(r) \/ CallAnswered(r)
          PROVE  remote' = remote
      BY <2>4 DEF Refuse, ServeLoad, LoadAnswered, CallAnswered
    <2>5. CASE UNCHANGED panelVars \/ Close \/ Reread \/ \E s \in Subject : Open(s)
      BY <2>1, <2>5 DEF panelVars, Close, Reread, Open
    <2>6. ASSUME NEW op \in panel.ops, NEW i \in Targets(op), Submit(op, i, i \notin shown)
          PROVE  remote' = remote
      BY <2>6 DEF Submit
    <2> QED
      BY <2>1, <2>2, <2>3, <2>4, <2>5, <2>6 DEF PanelNext
  <1>2. NothingUnmounted'
    <2>1. ASSUME NEW s \in Subject, Open(s)
          PROVE  subject' # Gone
      BY <2>1, SubjectAssumption DEF Open
    <2>2. CASE Close
      BY <2>2 DEF Close, NothingUnmounted
    <2>3. ASSUME NEW r \in requests, LoadAnswered(r)
          PROVE  NothingUnmounted'
      BY <2>3 DEF LoadAnswered, Wanted, Alive, Shown, NothingUnmounted
    <2>4. CASE about' = about /\ subject' = subject
      BY <2>4 DEF Shown, NothingUnmounted
    <2>5. ASSUME NEW r \in requests, Serve(r) \/ Refuse(r) \/ ServeLoad(r) \/ CallAnswered(r)
          PROVE  about' = about /\ subject' = subject
      BY <2>5 DEF Serve, Refuse, ServeLoad, CallAnswered
    <2>6. CASE UNCHANGED panelVars \/ Reread \/ \E s \in Subject, i \in Item : OtherWrites(s, i)
      BY <2>4, <2>6 DEF panelVars, Reread, OtherWrites
    <2>7. ASSUME NEW op \in panel.ops, NEW i \in Targets(op), Submit(op, i, i \notin shown)
          PROVE  about' = about /\ subject' = subject
      BY <2>7 DEF Submit
    <2> QED
      BY <2>1, <2>2, <2>3, <2>4, <2>5, <2>6, <2>7 DEF PanelNext, NothingUnmounted
  <1> QED
    BY <1>1, <1>2, AboutStep DEF Shown

-----------------------------------------------------------------------------
(***************************************************************************)
(* The busy flag.                                                          *)
(***************************************************************************)

AllPanel == \A op \in panel.ops : op.gate = "panel"

LEMMA GatedStep ==
  ASSUME PanelTypeOK, Requests, Gated, [PanelNext]_panelVars
  PROVE  Gated'
  <1> SUFFICES ASSUME AllPanel
               PROVE  AtMostOne(Mine)'
    BY Forward DEF Gated, AllPanel, AtMostOne
  <1>1. AtMostOne(Mine)
    BY DEF Gated, AllPanel, AtMostOne
  <1>2. CASE requests' \subseteq requests /\ instance' = instance
    BY <1>1, <1>2 DEF AtMostOne, Mine
  <1>3. ASSUME NEW r \in Request, r.op = NoOp, requests' = requests \cup {r}, instance' = instance
        PROVE  AtMostOne(Mine)'
    BY <1>1, <1>3 DEF AtMostOne, Mine
  <1>4. ASSUME NEW r \in requests, NEW stage \in Stages, NEW value \in SUBSET Item,
               Moved(r, stage, value), instance' = instance
        PROVE  AtMostOne(Mine)'
    <2> DEFINE q == Becomes(r, stage, value)
    <2>1. requests' = (requests \ {r}) \cup {q}
      BY <1>4, MovedIs
    <2>2. q.op = r.op /\ q.instance = r.instance
      BY BecomesIs DEF PanelTypeOK
    <2> HIDE DEF q
    <2>3. q \in Mine' => r \in Mine
      BY <1>4, <2>2 DEF Mine
    <2>4. \A p \in Mine' : p = q \/ (p \in Mine /\ p # r)
      BY <1>4, <2>1 DEF Mine
    <2> QED
      BY <1>1, <2>3, <2>4 DEF AtMostOne
  <1>5. ASSUME NEW s \in Subject, Open(s)
        PROVE  AtMostOne(Mine)'
    <2>1. instance \in Nat /\ \A r \in requests : r.instance \in Nat /\ r.instance <= instance
      BY DEF PanelTypeOK, Request, Requests, Sound
    <2>2. /\ requests' = requests \cup {FirstLoad(s, instance')}
          /\ instance' = instance \/ instance' = instance + 1
      BY <1>5 DEF Open
    <2>3. FirstLoad(s, instance').op = NoOp /\ FirstLoad(s, instance') \in Request
      BY <2>1, <2>2, FirstLoadIs
    <2>4. CASE instance' = instance
      BY <1>3, <2>2, <2>3, <2>4
    <2>5. CASE instance' = instance + 1
      BY <2>1, <2>2, <2>3, <2>5 DEF AtMostOne, Mine
    <2> QED
      BY <2>2, <2>4, <2>5
  <1>6. CASE Close
    BY <1>2, <1>6 DEF Close
  <1>7. CASE Reread
    <2>1. subject \in Subject /\ instance \in Nat
      BY <1>7 DEF Reread, PanelTypeOK
    <2>2. requests' = requests \cup {FirstLoad(subject, instance)} /\ instance' = instance
      BY <1>7 DEF Reread
    <2> QED
      BY <1>3, <2>1, <2>2, FirstLoadIs
  <1>8. ASSUME NEW op \in panel.ops, NEW i \in Targets(op), Submit(op, i, i \notin shown)
        PROVE  AtMostOne(Mine)'
    <2>1. PICK r : requests' = requests \cup {r}
      BY <1>8 DEF Submit
    <2>2. Mine = {} /\ instance' = instance
      BY <1>8 DEF Submit, Offered, AllPanel
    <2> QED
      BY <2>1, <2>2 DEF AtMostOne, Mine
  <1>9. ASSUME NEW r \in requests, Serve(r)
        PROVE  AtMostOne(Mine)'
    <2>1. PICK value \in SUBSET Item : value = remote'[r.subject]
      BY <1>9, ServeIs
    <2>2. instance' = instance
      BY <1>9 DEF Serve
    <2>3. Moved(r, "done", value) \/ Moved(r, "failed", {})
      BY <1>9, <2>1 DEF Serve
    <2>4. {} \in SUBSET Item /\ "done" \in Stages /\ "failed" \in Stages
      BY DEF Stages
    <2> QED
      BY <1>4, <2>2, <2>3, <2>4
  <1>10. ASSUME NEW r \in requests, Refuse(r)
         PROVE  AtMostOne(Mine)'
    <2>1. "failed" \in Stages /\ "unread" \in Stages /\ {} \in SUBSET Item
      BY DEF Stages
    <2> QED
      BY <1>4, <1>10, <2>1 DEF Refuse
  <1>11. ASSUME NEW r \in requests, ServeLoad(r)
         PROVE  AtMostOne(Mine)'
    <2>1. remote[r.subject] \in SUBSET Item /\ "reread" \in Stages
      BY DEF PanelTypeOK, Request, Stages
    <2> QED
      BY <1>4, <1>11, <2>1 DEF ServeLoad
  <1>12. ASSUME NEW r \in requests, LoadAnswered(r)
         PROVE  AtMostOne(Mine)'
    BY <1>2, <1>12 DEF LoadAnswered, Drop
  <1>13. ASSUME NEW r \in requests, CallAnswered(r)
         PROVE  AtMostOne(Mine)'
    <2>1. instance' = instance
      BY <1>13 DEF CallAnswered
    <2>2. CASE Drop(r)
      BY <1>2, <2>1, <2>2 DEF Drop
    <2>3. CASE Moved(r, "rereading", {})
      <3>1. "rereading" \in Stages /\ {} \in SUBSET Item
        BY DEF Stages
      <3> QED
        BY <1>4, <2>1, <2>3, <3>1
    <2> QED
      BY <1>13, <2>2, <2>3 DEF CallAnswered
  <1>14. CASE UNCHANGED panelVars \/ \E s \in Subject, i \in Item : OtherWrites(s, i)
    BY <1>2, <1>14 DEF panelVars, OtherWrites
  <1> QED
    BY <1>5, <1>6, <1>7, <1>8, <1>9, <1>10, <1>11, <1>12, <1>13, <1>14 DEF PanelNext

-----------------------------------------------------------------------------
(***************************************************************************)
(* One request at a time.                                                  *)
(***************************************************************************)

LEMMA SerialFacts ==
  ASSUME Serial(panel)
  PROVE  /\ panel.stale = "remount" /\ panel.hides # "no" /\ ~panel.rereads
         /\ \A op \in panel.ops : ~op.early /\ (op.after = "nothing" => op.call = Act)
         /\ NoOp \notin panel.ops
  <1>1. \A op \in panel.ops : ~op.early /\ (op.after = "nothing" => op.call = Act)
    BY DEF Serial
  <1>2. NoOp \notin panel.ops
    BY NoOpType DEF Serial
  <1> QED
    BY <1>1, <1>2 DEF Serial

\* A call is offered only when nothing else is under way.
LEMMA OfferedAlone ==
  ASSUME panel \in Panel, Requests, OneCurrent, Serial(panel), subject # Gone,
         NEW op \in panel.ops, NEW i, Offered(op, i)
  PROVE  loaded /\ Current = {}
  <1>1. loaded
    <2>1. panel.hides # "no" /\ ~op.early
      BY SerialFacts
    <2> QED
      BY <2>1, Zenon DEF Offered
  <1>2. \A r \in Current : r \in Mine /\ r.op \in panel.ops
    BY <1>1 DEF OneCurrent, Current, Mine, Requests, Sound
  <1>3. CASE \A o \in panel.ops : o.gate = "panel"
    BY <1>1, <1>2, <1>3 DEF Offered
  <1>4. CASE Cardinality(panel.ops) = 1 /\ \A o \in panel.ops : o.gate = "call"
    <2>1. PICK o : panel.ops = {o}
      BY <1>4, DescriptorAssumption, FS_Singleton
    <2>2. \A r \in Mine : r.op # op
      BY <1>4 DEF Offered
    <2> QED
      BY <1>1, <1>2, <2>1, <2>2
  <1> QED
    BY <1>1, <1>3, <1>4 DEF Serial

\* The answer to a call, and the rollback of one that was ahead of the server.
LEMMA AppliedAgain ==
  ASSUME NEW r \in Request, NEW v \in SUBSET Item
  PROVE  Applied(Becomes(r, "done", Applied(r, v)), v) = Applied(r, v)
  <1> DEFINE q == Becomes(r, "done", Applied(r, v))
  <1>1. "done" \in Stages /\ Applied(r, v) \in SUBSET Item
    BY AppliedFacts DEF Stages
  <1>2. q.op = r.op /\ q.item = r.item /\ q.gain = r.gain /\ q.value = Applied(r, v)
    BY <1>1, BecomesIs
  <1> HIDE DEF q
  <1>3. ASSUME r.op.call = Rewrite
        PROVE  Applied(q, v) = Applied(r, v)
    <2>1. Applied(r, v) = IF r.gain THEN r.value \cup {r.item} ELSE r.value \ {r.item}
      BY <1>3, CallNames DEF Applied
    <2>2. Applied(q, v) = IF r.gain THEN Applied(r, v) \cup {r.item} ELSE Applied(r, v) \ {r.item}
      BY <1>2, <1>3, CallNames DEF Applied
    <2>3. CASE r.gain
      BY <2>1, <2>2, <2>3
    <2>4. CASE ~r.gain
      BY <2>1, <2>2, <2>4
    <2> QED
      BY <2>3, <2>4
  <1>4. ASSUME r.op.call # Rewrite
        PROVE  Applied(q, v) = Applied(r, v)
    BY <1>2, <1>4 DEF Applied
  <1> QED
    BY <1>3, <1>4 DEF q

LEMMA UndoneIs ==
  ASSUME NEW r \in Request, NEW v \in SUBSET Item, r.gain = (r.item \notin v),
         r.op.call # Replace, r.op.call = Rewrite => r.value = v,
         r.op.call = Remove => r.item \in v
  PROVE  Undone(r, Applied(r, v)) = v
  <1>1. CASE r.op.call = Add
    BY <1>1, CallNames DEF Applied, Undone
  <1>2. CASE r.op.call = Remove
    BY <1>2, CallNames DEF Applied, Undone
  <1>3. CASE r.op.call = Patch
    BY <1>3, CallNames DEF Applied, Undone
  <1>4. CASE r.op.call = Rewrite
    BY <1>4, CallNames DEF Applied, Undone
  <1>5. CASE r.op.call \notin {Add, Remove, Patch, Replace, Rewrite}
    <2>1. Applied(r, v) = v
      BY <1>5 DEF Applied
    <2> QED
      BY <2>1 DEF Undone
  <1> QED
    BY <1>1, <1>2, <1>3, <1>4, <1>5

LEMMA ActChangesNothing ==
  ASSUME NEW r, r.op.call = Act, NEW v
  PROVE  Applied(r, v) = v
  <1> QED
    BY CallNames DEF Applied

\* A request that moves on leaves its instance with as many requests.
LEMMA MovedCurrent ==
  ASSUME PanelTypeOK, NEW r \in requests, NEW stage \in Stages, NEW value \in SUBSET Item,
         Moved(r, stage, value), instance' = instance
  PROVE  LET q == Becomes(r, stage, value) IN
         /\ r \in Current => q \in Current' /\ Current' = (Current \ {r}) \cup {q}
         /\ r \notin Current => Current' = Current
         /\ r \in Current => requests' \ Current' \subseteq requests \ Current
         /\ requests' \ Current' \subseteq (requests \ Current) \cup {q}
  <1> DEFINE q == Becomes(r, stage, value)
  <1>1. requests' = (requests \ {r}) \cup {q}
    BY MovedIs
  <1>2. q.instance = r.instance
    BY BecomesIs DEF PanelTypeOK
  <1> HIDE DEF q
  <1>3. ASSUME r \in Current
        PROVE  /\ q \in Current' /\ Current' = (Current \ {r}) \cup {q}
               /\ requests' \ Current' \subseteq requests \ Current
    BY <1>1, <1>2, <1>3 DEF Current
  <1>4. ASSUME r \notin Current
        PROVE  Current' = Current /\ requests' \ Current' \subseteq (requests \ Current) \cup {q}
    BY <1>1, <1>2, <1>4 DEF Current
  <1> QED
    BY <1>3, <1>4 DEF q

LEMMA MovedAlone ==
  ASSUME PanelTypeOK, OneCurrent, NEW r \in requests, NEW stage \in Stages,
         NEW value \in SUBSET Item, Moved(r, stage, value),
         panel' = panel, instance' = instance, subject' = subject, loaded' = loaded
  PROVE  OneCurrent'
  <1> DEFINE q == Becomes(r, stage, value)
  <1>1. q.op = r.op
    BY BecomesIs DEF PanelTypeOK
  <1>2. /\ r \in Current => Current' = (Current \ {r}) \cup {q}
        /\ r \notin Current => Current' = Current
    BY MovedCurrent
  <1> HIDE DEF q
  <1> SUFFICES ASSUME Serial(panel), subject # Gone
               PROVE  AtMostOne(Current)' /\ \A p \in Current' : loaded <=> p.op # NoOp
    BY DEF OneCurrent
  <1>3. AtMostOne(Current) /\ \A p \in Current : loaded <=> p.op # NoOp
    BY DEF OneCurrent
  <1> QED
    BY <1>1, <1>2, <1>3 DEF AtMostOne

LEMMA FewerAlone ==
  ASSUME OneCurrent, requests' \subseteq requests,
         panel' = panel, instance' = instance, subject' = subject,
         loaded' = loaded \/ Current' = {}
  PROVE  OneCurrent'
  <1>1. Current' \subseteq Current
    BY DEF Current
  <1> QED
    BY <1>1 DEF OneCurrent, AtMostOne

LEMMA AloneStep ==
  ASSUME panel \in Panel, PanelTypeOK, Requests, OneCurrent, [PanelNext]_panelVars
  PROVE  OneCurrent'
  <1>0. panel' = panel /\ instance \in Nat
    BY Forward DEF PanelTypeOK
  <1>1. ASSUME NEW s \in Subject, Open(s)
        PROVE  OneCurrent'
    <2> SUFFICES ASSUME Serial(panel)
                 PROVE  AtMostOne(Current)' /\ \A p \in Current' : loaded' <=> p.op # NoOp
      BY <1>0 DEF OneCurrent
    <2>1. /\ requests' = requests \cup {FirstLoad(s, instance + 1)}
          /\ instance' = instance + 1 /\ ~loaded'
      BY <1>1, SerialFacts DEF Open
    <2>2. \A p \in requests : p.instance \in Nat /\ p.instance <= instance
      BY DEF PanelTypeOK, Request, Requests, Sound
    <2>3. FirstLoad(s, instance + 1).op = NoOp
      BY <1>0, FirstLoadIs
    <2>4. Current' \subseteq {FirstLoad(s, instance + 1)}
      BY <1>0, <2>1, <2>2 DEF Current
    <2> QED
      BY <2>1, <2>3, <2>4 DEF AtMostOne
  <1>2. CASE Close
    BY <1>2 DEF Close, OneCurrent
  <1>3. CASE Reread
    BY <1>0, <1>3, SerialFacts DEF Reread, OneCurrent
  <1>4. ASSUME NEW op \in panel.ops, NEW i \in Targets(op), Submit(op, i, i \notin shown)
        PROVE  OneCurrent'
    <2> SUFFICES ASSUME Serial(panel)
                 PROVE  AtMostOne(Current)' /\ \A p \in Current' : loaded' <=> p.op # NoOp
      BY <1>0 DEF OneCurrent
    <2> DEFINE g == i \notin shown
               r == NewRequest(op, i, g, "sent")
    <2>1. i \in Item
      BY SomeItem DEF Targets, PanelTypeOK
    <2>2. subject # Gone /\ g \in BOOLEAN /\ Submit(op, i, g)
      BY <1>4 DEF Submit
    <2>3. Offered(op, i)
      BY <1>4 DEF Submit
    <2> HIDE DEF g
    <2>4. r.op = op
      BY <2>1, <2>2, NewRequestIs
    <2>5. requests' = requests \cup {r} /\ instance' = instance /\ loaded' = loaded
      BY <2>2 DEF Submit
    <2> HIDE DEF r
    <2>6. loaded /\ Current = {} /\ NoOp \notin panel.ops
      BY <2>2, <2>3, OfferedAlone, SerialFacts
    <2>7. Current' \subseteq {r}
      BY <2>5, <2>6 DEF Current
    <2> QED
      BY <2>4, <2>5, <2>6, <2>7 DEF AtMostOne
  <1>5. ASSUME NEW r \in requests, Serve(r)
        PROVE  OneCurrent'
    <2>1. PICK value \in SUBSET Item : value = remote'[r.subject]
      BY <1>5, ServeIs
    <2>2. instance' = instance /\ subject' = subject /\ loaded' = loaded
      BY <1>5 DEF Serve
    <2>3. Moved(r, "done", value) \/ Moved(r, "failed", {})
      BY <1>5, <2>1 DEF Serve
    <2>4. {} \in SUBSET Item /\ "done" \in Stages /\ "failed" \in Stages
      BY DEF Stages
    <2> QED
      BY <1>0, <2>2, <2>3, <2>4, MovedAlone
  <1>6. ASSUME NEW r \in requests, Refuse(r)
        PROVE  OneCurrent'
    <2>1. "failed" \in Stages /\ "unread" \in Stages /\ {} \in SUBSET Item
      BY DEF Stages
    <2> QED
      BY <1>0, <1>6, <2>1, MovedAlone DEF Refuse
  <1>7. ASSUME NEW r \in requests, ServeLoad(r)
        PROVE  OneCurrent'
    <2>1. remote[r.subject] \in SUBSET Item /\ "reread" \in Stages
      BY DEF PanelTypeOK, Request, Stages
    <2> QED
      BY <1>0, <1>7, <2>1, MovedAlone DEF ServeLoad
  <1>8. ASSUME NEW r \in requests, LoadAnswered(r)
        PROVE  OneCurrent'
    <2>1. requests' = requests \ {r} /\ instance' = instance /\ subject' = subject
      BY <1>8 DEF LoadAnswered, Drop
    <2>2. CASE r \in Current /\ Serial(panel) /\ subject # Gone
      <3>1. Current' = {}
        BY <2>1, <2>2 DEF OneCurrent, AtMostOne, Current
      <3> QED
        BY <3>1 DEF OneCurrent, AtMostOne
    <2>3. CASE r \notin Current
      <3>1. loaded' = loaded
        BY <1>8, <2>3 DEF LoadAnswered, Wanted, Alive, Current, PanelTypeOK
      <3> QED
        BY <1>0, <2>1, <3>1, FewerAlone
    <2> QED
      BY <1>0, <2>1, <2>2, <2>3 DEF OneCurrent
  <1>9. ASSUME NEW r \in requests, CallAnswered(r)
        PROVE  OneCurrent'
    <2>1. instance' = instance /\ subject' = subject /\ loaded' = loaded
      BY <1>9 DEF CallAnswered
    <2>2. CASE Drop(r)
      BY <1>0, <2>1, <2>2, FewerAlone DEF Drop
    <2>3. CASE Moved(r, "rereading", {})
      <3>1. "rereading" \in Stages /\ {} \in SUBSET Item
        BY DEF Stages
      <3> QED
        BY <1>0, <2>1, <2>3, <3>1, MovedAlone
    <2> QED
      BY <1>9, <2>2, <2>3 DEF CallAnswered
  <1>10. CASE UNCHANGED panelVars \/ \E s \in Subject, i \in Item : OtherWrites(s, i)
    BY <1>0, <1>10, FewerAlone DEF panelVars, OtherWrites
  <1> QED
    BY <1>1, <1>2, <1>3, <1>4, <1>5, <1>6, <1>7, <1>8, <1>9, <1>10 DEF PanelNext

\* Calls that reach the server, and nobody else, change it.
LEMMA InStepNow ==
  ASSUME InStep, Serial(panel), subject # Gone, undisturbed
  PROVE  /\ \A r \in requests \ Current : r.op = NoOp
         /\ Current = {} /\ loaded => shown = remote[subject]
         /\ \A r \in Current : Coherent(r)
  <1> QED
    BY DEF InStep

\* A call under way that is undisturbed is one of the mounted instance.
LEMMA CallIsCurrent ==
  ASSUME Requests, InStep, Serial(panel), subject # Gone, undisturbed,
         NEW r \in requests, r.stage \in {"sent", "done", "failed"}
  PROVE  /\ r \in Current /\ r.op \in panel.ops /\ r.subject = subject
         /\ Coherent(r)
  <1>1. r.op \in panel.ops
    BY DEF Requests, Sound
  <1>2. r \in Current
    BY <1>1, InStepNow, SerialFacts
  <1>3. r.subject = subject
    BY <1>2, SerialFacts DEF Requests
  <1> QED
    BY <1>1, <1>2, <1>3, InStepNow

LEMMA InStepMoved ==
  ASSUME PanelTypeOK, OneCurrent, InStep, Serial(panel), subject # Gone, undisturbed,
         NEW r \in requests, NEW stage \in Stages, NEW value \in SUBSET Item,
         Moved(r, stage, value),
         panel' = panel, instance' = instance, subject' = subject,
         r \in Current => Coherent(Becomes(r, stage, value))',
         r \notin Current => r.op = NoOp /\ shown' = shown /\ remote' = remote /\ loaded' = loaded
  PROVE  InStep'
  <1> DEFINE q == Becomes(r, stage, value)
  <1>1. q.op = r.op
    BY BecomesIs DEF PanelTypeOK
  <1>2. /\ r \in Current => q \in Current' /\ Current' = (Current \ {r}) \cup {q}
        /\ r \notin Current => Current' = Current
        /\ r \in Current => requests' \ Current' \subseteq requests \ Current
        /\ requests' \ Current' \subseteq (requests \ Current) \cup {q}
    BY MovedCurrent
  <1>3. r \in Current => Coherent(q)'
    OBVIOUS
  <1> HIDE DEF q
  <1>4. /\ \A p \in requests \ Current : p.op = NoOp
        /\ Current = {} /\ loaded => shown = remote[subject]
        /\ \A p \in Current : Coherent(p)
    BY InStepNow
  <1>5. CASE r \in Current
    <2>1. Current = {r}
      BY <1>5 DEF OneCurrent, AtMostOne
    <2> QED
      BY <1>2, <1>3, <1>4, <1>5, <2>1 DEF InStep
  <1>6. CASE r \notin Current
    <2>1. \A p \in Current : Coherent(p)'
      BY <1>4, <1>6 DEF Coherent
    <2> QED
      BY <1>1, <1>2, <1>4, <1>6, <2>1 DEF InStep
  <1> QED
    BY <1>5, <1>6

LEMMA ServeInStep ==
  ASSUME PanelTypeOK, Requests, OneCurrent, InStep, panel' = panel,
         NEW r \in requests, Serve(r)
  PROVE  InStep'
  <1>1. /\ subject' = subject /\ instance' = instance /\ shown' = shown /\ loaded' = loaded
        /\ undisturbed' => undisturbed
    BY DEF Serve
  <1> SUFFICES ASSUME Serial(panel), subject # Gone, undisturbed'
               PROVE  InStep'
    BY <1>1 DEF InStep
  <1>2. PICK value \in SUBSET Item : value = remote'[r.subject]
    BY ServeIs
  <1>3. /\ Moved(r, "done", value) /\ value = Applied(r, remote[r.subject]) /\ r \in Request
        /\ r.stage = "sent"
    BY <1>2, ServeIs
  <1>4. /\ r \in Current /\ r.op \in panel.ops /\ r.subject = subject
        /\ Coherent(r)
    BY <1>1, <1>3, CallIsCurrent
  <1> DEFINE q == Becomes(r, "done", value)
  <1>5. "done" \in Stages
    BY DEF Stages
  <1>6. q.op = r.op /\ q.stage = "done" /\ q.value = value
    BY <1>3, <1>5, BecomesIs
  <1>7. remote[subject] \in SUBSET Item
    BY <1>3, <1>4 DEF PanelTypeOK, Request
  <1>8. Applied(q, remote[subject]) = value
    BY <1>3, <1>4, <1>7, AppliedAgain
  <1> HIDE DEF q
  <1>9. IF r.op.after = "optimistic" THEN shown = value ELSE shown = remote[subject]
    BY <1>3, <1>4 DEF Coherent
  <1>10. Coherent(q)'
    BY <1>1, <1>2, <1>4, <1>6, <1>8, <1>9 DEF Coherent
  <1> QED
    BY <1>1, <1>3, <1>4, <1>5, <1>10, InStepMoved DEF q

LEMMA RefuseInStep ==
  ASSUME PanelTypeOK, Requests, OneCurrent, InStep, panel' = panel,
         NEW r \in requests, Refuse(r)
  PROVE  InStep'
  <1>1. /\ subject' = subject /\ instance' = instance /\ shown' = shown /\ remote' = remote
        /\ undisturbed' => undisturbed
    BY DEF Refuse
  <1> SUFFICES ASSUME Serial(panel), subject # Gone, undisturbed'
               PROVE  InStep'
    BY <1>1 DEF InStep
  <1>2. Moved(r, "failed", {}) /\ r.stage = "sent" /\ r \in Request
    BY DEF Refuse, PanelTypeOK
  <1>3. /\ r \in Current /\ r.op \in panel.ops /\ r.subject = subject
        /\ Coherent(r)
    BY <1>1, <1>2, CallIsCurrent
  <1> DEFINE q == Becomes(r, "failed", {})
  <1>4. "failed" \in Stages /\ {} \in SUBSET Item
    BY DEF Stages
  <1>5. q.op = r.op /\ q.item = r.item /\ q.gain = r.gain /\ q.stage = "failed"
    BY <1>2, <1>4, BecomesIs
  <1> HIDE DEF q
  <1>6. IF r.op.after = "optimistic" THEN Undone(r, shown) = remote[subject]
                                     ELSE shown = remote[subject]
    BY <1>2, <1>3 DEF Coherent
  <1>7. Coherent(q)'
    BY <1>1, <1>5, <1>6 DEF Coherent, Undone
  <1> QED
    BY <1>1, <1>2, <1>3, <1>4, <1>7, InStepMoved DEF q

LEMMA ServeLoadInStep ==
  ASSUME PanelTypeOK, Requests, OneCurrent, InStep, panel' = panel,
         NEW r \in requests, ServeLoad(r)
  PROVE  InStep'
  <1>1. /\ subject' = subject /\ instance' = instance /\ shown' = shown /\ remote' = remote
        /\ loaded' = loaded /\ undisturbed' = undisturbed
    BY DEF ServeLoad
  <1> SUFFICES ASSUME Serial(panel), subject # Gone, undisturbed
               PROVE  InStep'
    BY <1>1 DEF InStep
  <1>2. PICK value \in SUBSET Item : value = remote[r.subject]
    BY DEF PanelTypeOK, Request
  <1> DEFINE q == Becomes(r, "reread", value)
  <1>3. "reread" \in Stages /\ r \in Request /\ Moved(r, "reread", value)
    BY <1>2 DEF Stages, PanelTypeOK, ServeLoad
  <1>4. q.stage = "reread" /\ q.value = value
    BY <1>3, BecomesIs
  <1> HIDE DEF q
  <1>5. r \in Current => r.subject = subject
    BY SerialFacts DEF Requests
  <1>6. r \in Current => Coherent(q)'
    BY <1>1, <1>2, <1>4, <1>5 DEF Coherent
  <1>7. r \notin Current => r.op = NoOp
    BY InStepNow
  <1> QED
    BY <1>1, <1>3, <1>6, <1>7, InStepMoved DEF q

\* The last request of the instance is answered: what it brings is what the
\* server has.
LEMMA AnsweredInStep ==
  ASSUME OneCurrent, InStep, Serial(panel), subject # Gone, undisturbed,
         NEW r \in requests, requests' = requests \ {r},
         panel' = panel, instance' = instance, subject' = subject, remote' = remote,
         r \in Current => shown' = remote[subject],
         r \notin Current => shown' = shown /\ loaded' = loaded
  PROVE  InStep'
  <1>1. /\ \A p \in requests \ Current : p.op = NoOp
        /\ Current = {} /\ loaded => shown = remote[subject]
        /\ \A p \in Current : Coherent(p)
    BY InStepNow
  <1>2. CASE r \in Current
    <2>1. Current = {r}
      BY <1>2 DEF OneCurrent, AtMostOne
    <2>2. Current' = {} /\ requests' \ Current' \subseteq requests \ Current
      BY <2>1 DEF Current
    <2> QED
      BY <1>1, <1>2, <2>2 DEF InStep
  <1>3. CASE r \notin Current
    <2>1. Current' = Current /\ requests' \ Current' \subseteq requests \ Current
      BY <1>3 DEF Current
    <2>2. \A p \in Current : Coherent(p)'
      BY <1>1, <1>3 DEF Coherent
    <2> QED
      BY <1>1, <1>3, <2>1, <2>2 DEF InStep
  <1> QED
    BY <1>2, <1>3

LEMMA LoadAnsweredInStep ==
  ASSUME PanelTypeOK, Requests, OneCurrent, InStep, panel' = panel,
         NEW r \in requests, LoadAnswered(r)
  PROVE  InStep'
  <1>1. /\ subject' = subject /\ instance' = instance /\ remote' = remote
        /\ undisturbed' = undisturbed /\ requests' = requests \ {r}
        /\ r.stage \in {"reread", "unread"}
    BY DEF LoadAnswered, Drop
  <1> SUFFICES ASSUME Serial(panel), subject # Gone, undisturbed
               PROVE  InStep'
    BY <1>1 DEF InStep
  <1>2. ASSUME r \in Current
        PROVE  shown' = remote[subject]
    <2>1. r.stage = "reread" /\ r.value = remote[subject]
      BY <1>1, <1>2, InStepNow DEF Coherent
    <2>2. Wanted(r)
      BY <1>2, SerialFacts DEF Wanted, Alive, Current, Requests
    <2> QED
      BY <2>1, <2>2 DEF LoadAnswered
  <1>3. ASSUME r \notin Current
        PROVE  shown' = shown /\ loaded' = loaded
    BY <1>3 DEF LoadAnswered, Wanted, Alive, Current, PanelTypeOK
  <1> QED
    BY <1>1, <1>2, <1>3, AnsweredInStep

LEMMA CallAnsweredInStep ==
  ASSUME PanelTypeOK, Requests, OneCurrent, InStep, panel' = panel,
         NEW r \in requests, CallAnswered(r)
  PROVE  InStep'
  <1>1. /\ subject' = subject /\ instance' = instance /\ remote' = remote /\ loaded' = loaded
        /\ undisturbed' = undisturbed /\ r.stage \in {"done", "failed"}
    BY DEF CallAnswered
  <1> SUFFICES ASSUME Serial(panel), subject # Gone, undisturbed
               PROVE  InStep'
    BY <1>1 DEF InStep
  <1>2. /\ r \in Current /\ r.op \in panel.ops /\ r.subject = subject
        /\ Coherent(r) /\ Alive(r)
    BY <1>1, CallIsCurrent DEF Alive, Current
  <1>3. CASE r.stage = "done" /\ r.op.after = "reload"
    <2> DEFINE q == Becomes(r, "rereading", {})
    <2>1. "rereading" \in Stages /\ {} \in SUBSET Item /\ r \in Request
      BY DEF Stages, PanelTypeOK
    <2>2. q.stage = "rereading"
      BY <2>1, BecomesIs
    <2> HIDE DEF q
    <2>3. Coherent(q)'
      BY <2>2 DEF Coherent
    <2>4. Moved(r, "rereading", {})
      BY <1>3 DEF CallAnswered
    <2> QED
      BY <1>1, <1>2, <2>1, <2>3, <2>4, InStepMoved DEF q
  <1>4. CASE ~(r.stage = "done" /\ r.op.after = "reload")
    <2>1. requests' = requests \ {r}
      BY <1>4 DEF CallAnswered, Drop
    <2>2. CASE r.stage = "failed"
      <3>1. shown' = IF r.op.after = "optimistic" THEN Undone(r, shown) ELSE shown
        BY <1>2, <2>2 DEF CallAnswered, Undone
      <3>2. shown' = remote[subject]
        BY <1>2, <2>2, <3>1 DEF Coherent
      <3> QED
        BY <1>1, <1>2, <2>1, <3>2, AnsweredInStep
    <2>3. CASE r.stage = "done"
      <3>1. r.op.after \in {"local", "echo", "optimistic", "nothing"}
        BY <1>2, <1>4, <2>3 DEF PanelTypeOK, Panels, Ops
      <3>2. shown' = CASE r.op.after = "local" -> Applied(r, shown)
                       [] r.op.after = "echo" -> r.value
                       [] OTHER -> shown
        BY <1>2, <2>3 DEF CallAnswered
      <3>3. /\ r.value = remote[subject]
            /\ IF r.op.after = "optimistic" THEN shown = remote[subject]
               ELSE Applied(r, shown) = remote[subject]
        BY <1>2, <2>3 DEF Coherent
      <3>4. r.op.after = "nothing" => Applied(r, shown) = shown
        BY <1>2, SerialFacts, ActChangesNothing
      <3>5. shown' = remote[subject]
        BY <3>1, <3>2, <3>3, <3>4
      <3> QED
        BY <1>1, <1>2, <2>1, <3>5, AnsweredInStep
    <2> QED
      BY <1>1, <2>2, <2>3
  <1> QED
    BY <1>3, <1>4

\* A call is sent when the panel shows what the server has.
LEMMA SubmitInStep ==
  ASSUME panel \in Panel, PanelTypeOK, Requests, OneCurrent, InStep, panel' = panel,
         NEW op \in panel.ops, NEW i \in Targets(op), Submit(op, i, i \notin shown)
  PROVE  InStep'
  <1> DEFINE g == i \notin shown
             new == NewRequest(op, i, g, "sent")
  <1>1. subject' = subject /\ undisturbed' = undisturbed /\ remote' = remote /\ instance' = instance
    BY DEF Submit
  <1> SUFFICES ASSUME Serial(panel), subject # Gone, undisturbed
               PROVE  InStep'
    BY <1>1 DEF InStep
  <1>2. i \in Item
    BY SomeItem DEF Targets, PanelTypeOK
  <1>3. loaded /\ Current = {}
    BY OfferedAlone DEF Submit
  <1>4. shown = remote[subject] /\ \A p \in requests : p.op = NoOp
    BY <1>3, InStepNow
  <1>5. /\ requests' = requests \cup {new}
        /\ shown' = IF op.after = "optimistic" THEN Applied(new, shown) ELSE shown
    BY DEF Submit
  <1>6. g = (i \notin shown) /\ g \in BOOLEAN
    OBVIOUS
  <1> HIDE DEF g
  <1>7. /\ new \in Request
        /\ new.op = op /\ new.item = i /\ new.gain = g /\ new.subject = subject
        /\ new.instance = instance /\ new.stage = "sent"
        /\ new.value = IF op.call = Rewrite THEN shown ELSE {}
    <2>1. subject # Gone /\ g \in BOOLEAN
      BY <1>6
    <2>2. /\ new \in Request
          /\ new.op = op /\ new.item = i /\ new.gain = g /\ new.subject = subject
      BY <1>2, <2>1, NewRequestIs
    <2>3. /\ new.instance = instance /\ new.stage = "sent"
          /\ new.value = IF op.call = Rewrite THEN shown ELSE {}
      BY <1>2, <2>1, NewRequestIs
    <2> QED
      BY <2>2, <2>3
  <1> HIDE DEF new
  <1>11. PICK r \in Request : r = new
    BY <1>7
  <1>8. ASSUME op.after = "optimistic"
        PROVE  Undone(r, Applied(r, shown)) = shown
    <2>1. op.call # Replace
      BY <1>8, DescriptorAssumption
    <2>2. op.call = Remove => i \in shown
      BY CallNames DEF Targets
    <2>3. shown \in SUBSET Item
      BY DEF PanelTypeOK
    <2> QED
      <3>1. r.op = op /\ r.item = i /\ (r.op.call = Rewrite => r.value = shown)
        BY <1>7, <1>11
      <3>2. r.gain = (r.item \notin shown)
        BY <1>6, <1>7, <1>11
      <3> QED
        BY <2>1, <2>2, <2>3, <3>1, <3>2, UndoneIs
  <1>9. Coherent(r)'
    <2>1. r.stage = "sent" /\ r.op = op /\ remote'[subject'] = remote[subject]
          /\ remote[subject] = shown
      BY <1>1, <1>4, <1>7, <1>11
    <2>2. ASSUME op.after = "optimistic"
          PROVE  shown' = Applied(r, remote[subject]) /\ Undone(r, shown') = remote[subject]
      BY <1>5, <1>8, <1>11, <2>1, <2>2
    <2>3. ASSUME op.after # "optimistic"
          PROVE  shown' = remote[subject]
      BY <1>5, <2>1, <2>3
    <2> QED
      BY <2>1, <2>2, <2>3 DEF Coherent
  <1>10. Current' = {r} /\ requests' \ Current' \subseteq requests
    BY <1>1, <1>3, <1>5, <1>7, <1>11 DEF Current
  <1> QED
    BY <1>4, <1>9, <1>10 DEF InStep

LEMMA InStepStep ==
  ASSUME panel \in Panel, PanelTypeOK, Requests, OneCurrent, InStep, [PanelNext]_panelVars
  PROVE  InStep'
  <1>0. panel' = panel /\ instance \in Nat
    BY Forward DEF PanelTypeOK
  <1>1. ASSUME NEW s \in Subject, Open(s)
        PROVE  InStep'
    <2> DEFINE new == FirstLoad(s, instance + 1)
    <2> SUFFICES ASSUME Serial(panel), undisturbed'
                 PROVE  /\ \A p \in requests' \ Current' : p.op = NoOp
                        /\ Current' # {}
                        /\ \A p \in Current' : Coherent(p)'
      BY <1>0 DEF InStep
    <2>6. new \in Request /\ new.instance = instance + 1 /\ new.stage = "rereading"
      BY <1>0, FirstLoadIs
    <2>7. PICK r \in Request : r = new
      BY <2>6
    <2>1. /\ requests' = requests \cup {r} /\ instance' = instance + 1
          /\ \A p \in requests : p.op = NoOp
      BY <1>1, <2>7, SerialFacts DEF Open
    <2>2. r.instance = instance + 1 /\ r.stage = "rereading"
      BY <2>6, <2>7
    <2> HIDE DEF new
    <2>3. \A p \in requests : p.instance \in Nat /\ p.instance <= instance
      BY DEF PanelTypeOK, Request, Requests, Sound
    <2>4. Current' = {r}
      BY <1>0, <2>1, <2>2, <2>3 DEF Current
    <2>5. Coherent(r)'
      BY <2>2 DEF Coherent
    <2> QED
      BY <2>1, <2>4, <2>5
  <1>2. CASE Close
    BY <1>2 DEF Close, InStep
  <1>3. CASE Reread
    BY <1>0, <1>3, SerialFacts DEF Reread, InStep
  <1>4. CASE UNCHANGED panelVars
    <2>1. Current' = Current /\ \A r \in Current : Coherent(r)' = Coherent(r)
      BY <1>4 DEF panelVars, Current, Coherent
    <2> QED
      BY <1>4, <2>1 DEF panelVars, InStep
  <1>5. CASE \E s \in Subject, i \in Item : OtherWrites(s, i)
    BY <1>5 DEF OtherWrites, InStep
  <1> QED
    BY <1>0, <1>1, <1>2, <1>3, <1>4, <1>5, SubmitInStep, ServeInStep, RefuseInStep,
       ServeLoadInStep, LoadAnsweredInStep, CallAnsweredInStep DEF PanelNext

-----------------------------------------------------------------------------

LEMMA PanelStep == PanelIInv /\ [PanelNext]_panelVars => PanelIInv'
  <1> SUFFICES ASSUME PanelIInv, [PanelNext]_panelVars
               PROVE  PanelIInv'
    OBVIOUS
  <1>1. /\ panel \in Panel /\ PanelTypeOK /\ Requests /\ Shown /\ Gated /\ OneCurrent /\ InStep
    BY DEF PanelIInv
  <1>2. PanelTypeOK' /\ panel' = panel
    BY <1>1, TypesStep, Forward
  <1> QED
    BY <1>1, <1>2, RequestsStep, ShownStep, GatedStep, AloneStep, InStepStep DEF PanelIInv

LEMMA PanelInvariant == PanelSpec => []PanelIInv
  <1> QED
    BY InitKeeps, PanelStep, PTL DEF PanelSpec

\* The panels of a user interface, whatever their descriptors, subjects, entries
\* and order of answers: they stay well formed, a careful panel shows nothing of
\* an earlier subject, and buttons with a common busy flag have one call under
\* way.
THEOREM PanelsKeepTheirSubject == PanelSpec => []PanelInv
  <1>1. PanelIInv => PanelInv
    <2> SUFFICES ASSUME PanelIInv
                 PROVE  PanelInv
      OBVIOUS
    <2>1. PanelTypeOK /\ ShownAbout /\ Gated
      BY DEF PanelIInv, Shown
    <2>2. ShowsItsSubject
      BY <2>1 DEF ShownAbout, ShowsItsSubject, Loading, Current
    <2>3. OneCallPerGate
      <3> SUFFICES ASSUME \A op \in panel.ops : op.gate = "panel"
                   PROVE  Cardinality(Mine) <= 1
        BY DEF OneCallPerGate
      <3>1. CASE Mine = {}
        BY <3>1, FS_EmptySet
      <3>2. CASE Mine # {}
        <4>1. PICK r : Mine = {r}
          BY <2>1, <3>2 DEF Gated
        <4> QED
          BY <4>1, FS_Singleton
      <3> QED
        BY <3>1, <3>2
    <2> QED
      BY <2>1, <2>2, <2>3 DEF PanelInv
  <1> QED
    BY <1>1, PanelInvariant, PTL

\* A panel that runs one request at a time and is idle shows the collection of the
\* server, refused calls, rollbacks, reloads and remounts included.
THEOREM IdlePanelsAreCurrent == PanelSpec => []IdleShowsTheServer
  <1>1. PanelIInv => IdleShowsTheServer
    <2> SUFFICES ASSUME PanelIInv, Serial(panel), subject # Gone, loaded, undisturbed,
                        \A r \in requests : r.instance # instance
                 PROVE  shown = remote[subject]
      BY DEF IdleShowsTheServer
    <2>1. Current = {}
      BY DEF Current
    <2> QED
      BY <2>1, InStepNow DEF PanelIInv
  <1> QED
    BY <1>1, PanelInvariant, PTL
=============================================================================
