---------------------------- MODULE PersonalDevices ----------------------------
(***************************************************************************)
(* The "Personal devices" settings tab (porch/PersonalDevices.tsx), which  *)
(* is what runs PorchSync's rounds: its mount effect sets a 60 s interval, *)
(* its unmount clears it, and linking, unlinking and "Sync now" are its    *)
(* buttons.  A round that was started goes on in the backend after the tab *)
(* is gone.                                                                *)
(***************************************************************************)
EXTENDS PorchSync

VARIABLE tab  \* the devices on which the tab is mounted

tabVars == <<vars, tab>>

TabInit == Init /\ tab = {}

Mount(d) ==
  /\ d \notin tab
  /\ tab' = tab \cup {d}
  /\ UNCHANGED vars

Unmount(d) ==
  /\ d \in tab
  /\ tab' = tab \ {d}
  /\ UNCHANGED vars

\* The interval's tick (sync_all_personal_devices, one round per link) and the
\* "Sync now" button of a row.
tick(i, r) ==
  /\ i \in tab
  /\ \E n \in Slot : StartSync(i, r, n)
  /\ UNCHANGED tab

handleAdd(d, e) == d \in tab /\ link_personal_device(d, e) /\ UNCHANGED tab
handleConfirmUnlink(d, e) == d \in tab /\ unlink_device(d, e) /\ UNCHANGED tab

\* What the backend does goes on whether the tab is there or not.
Backend(i, r, n) == Proceed(i, r, n) /\ UNCHANGED tab

TabNext ==
  \/ \E d \in Device :
       \/ Mount(d)
       \/ Unmount(d)
       \/ LocalWrite(d) /\ UNCHANGED tab
  \/ \E p \in Pair :
       \/ tick(p[1], p[2])
       \/ handleAdd(p[1], p[2])
       \/ handleConfirmUnlink(p[1], p[2])
       \/ \E n \in Slot :
            \/ Backend(p[1], p[2], n)
            \/ Abandon(p[1], p[2], n) /\ UNCHANGED tab
  \/ \E q \in late : HandleLate(q) /\ UNCHANGED tab

\* The interval keeps firing while the tab is mounted, and the runtime keeps
\* polling a round that was started.  Nobody owes a mounted tab, a link or a write.
TabSpec ==
  /\ TabInit
  /\ [][TabNext]_tabVars
  /\ \A p \in Pair :
       /\ WF_tabVars(tick(p[1], p[2]))
       /\ \A n \in Slot : WF_tabVars(Backend(p[1], p[2], n))

-----------------------------------------------------------------------------
(***************************************************************************)
(* Properties.                                                             *)
(***************************************************************************)

AllLinked == \A p \in Pair : p[2] \in linked[p[1]]
SameContent(x, y) ==
  /\ Present(x) = Present(y)
  /\ \A k \in Present(x) : x[k].val = y[k].val /\ x[k].tomb = y[k].tomb
Converged == \A d, e \in Device : SameContent(db[d], db[e])

\* "Two installs the same user has marked as personal devices keep their porch
\* state convergent" (sync/mod.rs), as far as PersonalDevices.tsx:15-21 goes: if
\* the devices stay linked to each other and the tab stays open on each of them,
\* their files end up with the same rows and the same columns (stamps aside) for
\* good, once the writes have stopped.
Convergence == <>[](AllLinked /\ tab = Device) => <>[]Converged
=============================================================================
