-------------------------- MODULE ClientChatProofs --------------------------
(***************************************************************************)
(* Theorems about the parts of the chat: the message box (Composer), the   *)
(* frame of an app channel (ExtensionBridge), the paired peers, their      *)
(* camera and their cards (PeerBook), the sessions of a room               *)
(* (ExtensionSessions), the servers and channels (ServerNavigation) and    *)
(* the messages of a room (RoomMessages).  They share no variable, so each *)
(* is proved of the specification of its own part; the last section puts   *)
(* them together for the specification that MCClientChat composes.         *)
(***************************************************************************)
EXTENDS MCClientChat, SelectionProofs

-----------------------------------------------------------------------------
(***************************************************************************)
(* The message box.                                                        *)
(***************************************************************************)

\* What a submission is, from handleSubmit to its last call.
Submission ==
  [id : Nat, room : BoxRoom, text : Text \cup {Nothing}, edit : BOOLEAN, files : Nat,
   step : {"file", "edit", "send", "rejoin"}, tried : BOOLEAN]

\* The submission under way is the last one begun.
SubmissionOK ==
  bSub # Idle => bSub \in Submission /\ bSub.id < bCount

\* Posts come from submissions that were begun, and the one under way has not
\* posted its text: what follows a text that got through, or may have, is the
\* end of the submission.
PostsOK ==
  /\ \A p \in bPosted : p.sub \in Nat /\ p.sub < bCount
  /\ bSub # Idle => \A p \in bPosted : p.sub = bSub.id => p.kind # "text"

Notice == [room : BoxRoom, on : BOOLEAN, last : BOOLEAN]
Ends(r) == \E x \in bNotices : x.room = r /\ x.last /\ ~x.on

\* What was last sent to a room says whether the user writes there; a notice that
\* others see without that is ended by the one on its way, or has gone astray.
TypingOK ==
  /\ bTyping \in BOOLEAN /\ (bTyping => bTypingTimer)
  /\ bNotices \subseteq Notice
  /\ \A x \in bNotices : x.last => (x.on <=> Typed(x.room))
  /\ \A r \in bTold : Typed(r) \/ Ends(r) \/ r \in bAstray

ComposerInv == ComposerTypeOK /\ SubmissionOK /\ PostsOK /\ SentOnce /\ TypingOK

\* The box starts empty, with nothing sent and nobody told.
LEMMA ComposerInvInit == ComposerInit => ComposerInv
  <1> SUFFICES ASSUME ComposerInit
               PROVE  ComposerInv
    OBVIOUS
  <1>1. ComposerTypeOK
    BY ComposerAssumption DEF ComposerInit, ComposerTypeOK
  <1>2. SubmissionOK /\ PostsOK /\ SentOnce
    BY DEF ComposerInit, SubmissionOK, PostsOK, SentOnce
  <1>3. TypingOK
    BY DEF ComposerInit, TypingOK
  <1> QED
    BY <1>1, <1>2, <1>3 DEF ComposerInv

\* What is under way after a notice was sent: it, as the last one of its room, and
\* what was under way to other rooms.
LEMMA SendingNotice ==
  ASSUME NEW r \in BoxRoom, NEW on \in BOOLEAN, bNotices \subseteq Notice, sendTyping(r, on)
  PROVE  /\ bNotices' \subseteq Notice
         /\ \A x \in bNotices' : x.last => (x.room = r /\ x.on = on) \/ (x \in bNotices /\ x.room # r)
         /\ \E x \in bNotices' : x.room = r /\ x.last /\ x.on = on
         /\ \A x \in bNotices : x.room # r => x \in bNotices'
         /\ bTold' = bTold /\ bAstray' = bAstray \ {r}
PROOF
<1> DEFINE old(x) == [x EXCEPT !.last = FALSE]
           new == [room |-> r, on |-> on, last |-> TRUE]
<1>1. \A x \in Notice : old(x) \in Notice /\ old(x).last = FALSE /\ old(x).room = x.room
  BY DEF Notice
<1>2. new \in Notice /\ new.room = r /\ new.on = on /\ new.last
  BY DEF Notice
<1>3. /\ bNotices' = {IF x.room = r THEN old(x) ELSE x : x \in bNotices} \cup {new}
      /\ bTold' = bTold /\ bAstray' = bAstray \ {r}
  BY DEF sendTyping
<1> HIDE DEF old, new
<1>4. \A y \in bNotices' : y = new \/ (y \in bNotices /\ y.room # r) \/ \E x \in bNotices : y = old(x)
  BY <1>3
<1>5. new \in bNotices' /\ \A x \in bNotices : x.room # r => x \in bNotices'
  BY <1>3
<1>6. bNotices' \subseteq Notice
  BY <1>1, <1>2, <1>4
<1>7. ASSUME NEW y \in bNotices', y.last
      PROVE  (y.room = r /\ y.on = on) \/ (y \in bNotices /\ y.room # r)
  <2>1. CASE y = new
    BY <1>2, <2>1
  <2>2. ASSUME NEW x \in bNotices, y = old(x)
        PROVE  FALSE
    <3>1. old(x).last = FALSE
      BY <1>1
    <3> QED
      BY <1>7, <2>2, <3>1
  <2> QED
    BY <1>4, <2>1, <2>2
<1> QED
  BY <1>2, <1>3, <1>5, <1>6, <1>7

\* The user begins to write, or ends to, in the room where a notice says so.
LEMMA SendKeeps ==
  ASSUME TypingOK, bRoom \in BoxRoom, NEW on \in BOOLEAN, sendTyping(bRoom, on), bTyping' = on,
         on => bTypingTimer' /\ bRoom' = bRoom
  PROVE  TypingOK'
PROOF
<1>1. /\ bNotices' \subseteq Notice
      /\ \A x \in bNotices' : x.last => (x.room = bRoom /\ x.on = on) \/ (x \in bNotices /\ x.room # bRoom)
      /\ \E x \in bNotices' : x.room = bRoom /\ x.last /\ x.on = on
      /\ \A x \in bNotices : x.room # bRoom => x \in bNotices'
      /\ bTold' = bTold /\ bAstray' = bAstray \ {bRoom}
  BY SendingNotice DEF TypingOK
<1>2. \A r : Typed(r)' <=> (on /\ r = bRoom)
  BY DEF Typed
<1>3. \A x \in bNotices' : x.last => (x.on <=> Typed(x.room)')
  <2> SUFFICES ASSUME NEW x \in bNotices', x.last
               PROVE  x.on <=> Typed(x.room)'
    OBVIOUS
  <2>1. CASE x.room = bRoom /\ x.on = on
    BY <1>2, <2>1
  <2>2. CASE x \in bNotices /\ x.room # bRoom
    <3>1. ~x.on
      BY <2>2 DEF TypingOK, Typed
    <3> QED
      BY <1>2, <2>2, <3>1
  <2> QED
    BY <1>1, <2>1, <2>2
<1>4. ASSUME NEW r \in bTold'
      PROVE  Typed(r)' \/ Ends(r)' \/ r \in bAstray'
  <2>1. CASE r = bRoom /\ on
    BY <1>2, <2>1
  <2>2. CASE r = bRoom /\ ~on
    BY <1>1, <2>2 DEF Ends
  <2>3. CASE r # bRoom
    <3>1. Ends(r) \/ r \in bAstray
      BY <1>1, <2>3 DEF TypingOK, Typed
    <3>2. Ends(r) => Ends(r)'
      BY <1>1, <2>3 DEF Ends
    <3>3. r \in bAstray => r \in bAstray'
      BY <1>1, <2>3
    <3> QED
      BY <3>1, <3>2, <3>3
  <2> QED
    BY <2>1, <2>2, <2>3
<1>5. bTyping' \in BOOLEAN /\ (bTyping' => bTypingTimer')
  OBVIOUS
<1> QED
  BY <1>1, <1>3, <1>4, <1>5 DEF TypingOK

\* A notice comes or is lost.
LEMMA NoticeKeeps ==
  ASSUME TypingOK, NEW x \in bNotices, NEW lost \in BOOLEAN, NoticeArrives(x, lost)
  PROVE  TypingOK'
PROOF
<1>1. /\ UNCHANGED <<bRoom, bTyping, bTypingTimer>> /\ NoticeGone(x)
      /\ bTold' = IF lost THEN bTold ELSE IF x.on THEN bTold \cup {x.room} ELSE bTold \ {x.room}
      /\ bAstray' = IF Astray(x, lost) THEN bAstray \cup {x.room} ELSE bAstray
  BY DEF NoticeArrives
<1>2. bNotices' \subseteq bNotices /\ \A y \in bNotices : y # x => y \in bNotices'
  BY <1>1 DEF NoticeGone
<1>3. \A r : Typed(r)' <=> Typed(r)
  BY <1>1 DEF Typed
<1>4. /\ bNotices \subseteq Notice /\ \A y \in bNotices : y.last => (y.on <=> Typed(y.room))
      /\ \A r \in bTold : Typed(r) \/ Ends(r) \/ r \in bAstray
  BY DEF TypingOK
<1>5. bNotices' \subseteq Notice /\ \A y \in bNotices' : y.last => (y.on <=> Typed(y.room)')
  BY <1>2, <1>3, <1>4
<1>6. ASSUME NEW r \in bTold'
      PROVE  Typed(r)' \/ Ends(r)' \/ r \in bAstray'
  <2>1. \A y \in bNotices : y.room = r /\ y.last /\ ~y.on /\ y # x => Ends(r)'
    BY <1>2 DEF Ends
  <2>2. CASE r \in bTold
    <3>1. CASE Typed(r) \/ r \in bAstray
      BY <1>1, <1>3, <3>1
    <3>2. ASSUME NEW y \in bNotices, y.room = r, y.last, ~y.on
          PROVE  Ends(r)' \/ r \in bAstray'
      <4>1. CASE y # x
        BY <2>1, <3>2, <4>1
      <4>2. CASE y = x /\ lost
        BY <1>1, <3>2, <4>2 DEF Astray
      <4>3. CASE y = x /\ ~lost
        BY <1>1, <3>2, <4>3
      <4> QED
        BY <4>1, <4>2, <4>3
    <3> QED
      BY <1>4, <2>2, <3>1, <3>2 DEF Ends
  <2>3. CASE r \notin bTold
    <3>1. ~lost /\ x.on /\ r = x.room
      BY <1>1, <2>3
    <3>2. CASE Typed(r)
      BY <1>3, <3>2
    <3>3. CASE ~Typed(r) /\ \E y \in bNotices : y.room = x.room /\ y.last
      <4>1. PICK y \in bNotices : y.room = x.room /\ y.last
        BY <3>3
      <4>2. ~y.on
        BY <1>4, <3>1, <3>3, <4>1
      <4> QED
        BY <2>1, <3>1, <4>1, <4>2
    <3>4. CASE ~Typed(r) /\ ~\E y \in bNotices : y.room = x.room /\ y.last
      BY <1>1, <3>1, <3>4 DEF Astray
    <3> QED
      BY <3>2, <3>3, <3>4
  <2> QED
    BY <2>2, <2>3
<1>7. bTyping' \in BOOLEAN /\ (bTyping' => bTypingTimer')
  BY <1>1 DEF TypingOK
<1> QED
  BY <1>5, <1>6, <1>7 DEF TypingOK

\* What typing does not touch, and a room that does.
LEMMA TypingMoves ==
  ASSUME TypingOK, bRoom \in BoxRoom
  PROVE  /\ UNCHANGED <<bRoom, typing>> => TypingOK'
         /\ UNCHANGED notices /\ ~bTyping /\ ~bTyping' /\ bTyping' \in BOOLEAN => TypingOK'
         /\ UNCHANGED <<notices, bRoom>> /\ bTyping /\ bTyping' = TRUE /\ bTypingTimer' = TRUE => TypingOK'
PROOF
<1>1. ASSUME UNCHANGED notices, bTyping' \in BOOLEAN, bTyping' => bTypingTimer',
             \A r : Typed(r)' <=> Typed(r)
      PROVE  TypingOK'
  BY <1>1 DEF TypingOK, notices, Ends
<1>2. ASSUME UNCHANGED <<bRoom, typing>>
      PROVE  TypingOK'
  BY <1>1, <1>2 DEF TypingOK, typing, Typed
<1>3. ASSUME UNCHANGED notices, ~bTyping, ~bTyping', bTyping' \in BOOLEAN
      PROVE  TypingOK'
  BY <1>1, <1>3 DEF Typed
<1>4. ASSUME UNCHANGED <<notices, bRoom>>, bTyping, bTyping' = TRUE, bTypingTimer' = TRUE
      PROVE  TypingOK'
  BY <1>1, <1>4 DEF Typed
<1> QED
  BY <1>2, <1>3, <1>4

\* Typing notices: every way to write, send, stop or leave keeps them right.
LEMMA TypingStep == ComposerInv /\ [ComposerNext]_composerVars => TypingOK'
  <1> SUFFICES ASSUME ComposerInv, [ComposerNext]_composerVars
               PROVE  TypingOK'
    OBVIOUS
  <1>t. TypingOK /\ bRoom \in BoxRoom /\ bTyping \in BOOLEAN
    BY DEF ComposerInv, ComposerTypeOK, TypingOK
  <1>1. CASE UNCHANGED <<bRoom, typing>>
    BY <1>t, <1>1, TypingMoves
  \* The box stops, or the room is left.
  <1>s. ASSUME bTyping' = FALSE, IF bTyping THEN sendTyping(bRoom, FALSE) ELSE UNCHANGED notices
        PROVE  TypingOK'
    <2>1. CASE bTyping
      BY <1>t, <1>s, <2>1, SendKeeps
    <2>2. CASE ~bTyping
      BY <1>t, <1>s, <2>2, TypingMoves
    <2> QED
      BY <2>1, <2>2
  <1>q. ASSUME stopTyping, UNCHANGED bRoom
        PROVE  TypingOK'
    <2>1. CASE bTyping
      BY <1>q, <1>s, <2>1 DEF stopTyping
    <2>2. CASE ~bTyping
      BY <1>1, <1>q, <2>2 DEF stopTyping
    <2> QED
      BY <2>1, <2>2
  <1>2. CASE TypingTimeout
    BY <1>s, <1>2 DEF TypingTimeout
  <1>3. CASE handleSubmit
    BY <1>3, <1>q DEF handleSubmit
  <1>4. ASSUME NEW t \in Text \cup {Nothing}, handleChange(t)
        PROVE  TypingOK'
    <2>1. CASE UNCHANGED typing
      BY <1>1, <1>4, <2>1 DEF handleChange
    <2>2. CASE stopTyping
      BY <1>4, <1>q, <2>2 DEF handleChange
    <2>3. CASE onKeystroke
      <3>1. bTypingTimer' = TRUE /\ bTyping' = TRUE /\ bRoom' = bRoom
        BY <1>4, <2>3 DEF handleChange, onKeystroke
      <3>2. CASE bTyping
        BY <1>t, <2>3, <3>1, <3>2, TypingMoves DEF onKeystroke
      <3>3. CASE ~bTyping
        <4>1. sendTyping(bRoom, TRUE)
          BY <2>3, <3>3 DEF onKeystroke
        <4> QED
          BY <1>t, <3>1, <4>1, SendKeeps
      <3> QED
        BY <3>2, <3>3
    <2> QED
      BY <1>4, <2>1, <2>2, <2>3 DEF handleChange
  <1>5. ASSUME NEW r \in BoxRoom, openChat(r)
        PROVE  TypingOK'
    BY <1>s, <1>5 DEF openChat, leaveTyping
  <1>6. ASSUME NEW x \in bNotices, NEW lost \in BOOLEAN, NoticeArrives(x, lost)
        PROVE  TypingOK'
    BY <1>t, <1>6, NoticeKeeps
  <1>7. ASSUME NEW r \in BoxRoom, TypingExpires(r)
        PROVE  TypingOK'
    <2>1. /\ UNCHANGED <<bRoom, bTyping, bTypingTimer, bNotices>>
          /\ bTold' = bTold \ {r} /\ bAstray' = bAstray \ {r}
      BY <1>7 DEF TypingExpires
    <2> QED
      BY <1>t, <2>1 DEF TypingOK, Typed, Ends
  <1>8. \/ UNCHANGED <<bRoom, typing>> \/ TypingTimeout \/ handleSubmit
        \/ \E t \in Text \cup {Nothing} : handleChange(t)
        \/ \E r \in BoxRoom : openChat(r) \/ TypingExpires(r)
        \/ \E x \in bNotices, lost \in BOOLEAN : NoticeArrives(x, lost)
    <2>1. CASE UNCHANGED composerVars
      BY <2>1 DEF composerVars, typing, notices
    <2>2. CASE stageFiles \/ removeStaged \/ Escape \/ \E t \in Text : startEdit(t)
      BY <2>2 DEF stageFiles, removeStaged, Escape, startEdit
    <2>3. CASE FilesSent \/ \E r \in BoxRoom : LoseMembership(r)
      BY <2>3 DEF FilesSent, LoseMembership
    <2>4. CASE \E o \in Outcome : sendFile(o) \/ editMessage(o) \/ sendMessage(o)
      BY <2>4 DEF sendFile, editMessage, sendMessage
    <2>5. CASE \E ok, joined \in BOOLEAN : rejoinServerRooms(ok, joined)
      BY <2>5 DEF rejoinServerRooms
    <2> QED
      BY <2>1, <2>2, <2>3, <2>4, <2>5 DEF ComposerNext
  <1> QED
    BY <1>1, <1>2, <1>3, <1>4, <1>5, <1>6, <1>7, <1>8

\* A call of the submission under way keeps the record of what was posted: it
\* posts nothing, or something that is not the text, or it is the last one.
LEMMA CallKeepsPosts ==
  ASSUME ComposerInv, bSub # Idle, bCount' = bCount,
         NEW post, post.sub = bSub.id,
         \/ bPosted' = bPosted
         \/ bPosted' = bPosted \cup {post} /\ (bSub' = Idle \/ post.kind # "text"),
         bSub' = Idle \/ (bSub' \in Submission /\ bSub'.id = bSub.id)
  PROVE  SubmissionOK' /\ PostsOK' /\ SentOnce'
  <1>1. bSub \in Submission /\ bSub.id < bCount /\ bSub.id \in Nat
    BY DEF ComposerInv, SubmissionOK, Submission
  <1>2. SubmissionOK'
    BY <1>1 DEF SubmissionOK
  <1>3. PostsOK'
    BY <1>1 DEF ComposerInv, PostsOK
  <1>4. SentOnce'
    BY <1>1 DEF ComposerInv, PostsOK, SentOnce
  <1> QED
    BY <1>2, <1>3, <1>4

\* The submission itself: its first call, and each of those that follow.
LEMMA SubmissionStep ==
  ComposerInv /\ [ComposerNext]_composerVars => SubmissionOK' /\ PostsOK' /\ SentOnce'
  <1> SUFFICES ASSUME ComposerInv, [ComposerNext]_composerVars
               PROVE  SubmissionOK' /\ PostsOK' /\ SentOnce'
    OBVIOUS
  <1>t. /\ SubmissionOK /\ PostsOK /\ SentOnce
        /\ bCount \in Nat /\ bRoom \in BoxRoom /\ bText \in Text \cup {Nothing} /\ bFiles \in Nat
        /\ bSub # Idle => bSub \in Submission
    BY ComposerAssumption DEF ComposerInv, ComposerTypeOK, SubmissionOK
  <1> DEFINE Posts(kind) == [sub |-> bSub.id, kind |-> kind, room |-> bSub.room, again |-> bSub.tried]
  <1>p. ASSUME NEW kind
        PROVE  Posts(kind).sub = bSub.id /\ Posts(kind).kind = kind
    OBVIOUS
  <1>h. ASSUME NEW kind, NEW o, Happens(kind, o)
        PROVE  bPosted' = bPosted \/ bPosted' = bPosted \cup {Posts(kind)}
    BY <1>h DEF Happens
  <1> HIDE DEF Posts
  <1>i. ASSUME NEW step, Active(step), step # "idle"
        PROVE  bSub # Idle /\ bSub \in Submission
    BY <1>t, <1>i DEF Active, Idle
  <1>1. CASE UNCHANGED <<bSub, bPosted, bCount>>
    BY <1>t, <1>1 DEF SubmissionOK, PostsOK, SentOnce
  <1>2. CASE handleSubmit
    <2>1. bPosted' = bPosted /\ bCount' = bCount + 1
      BY <1>2 DEF handleSubmit
    <2>2. bSub' \in Submission /\ bSub'.id = bCount
      BY <1>t, <1>2 DEF handleSubmit, Submission
    <2>3. \A p \in bPosted : p.sub \in Nat /\ p.sub < bCount
      BY <1>t DEF PostsOK
    <2>4. SubmissionOK'
      BY <1>t, <2>1, <2>2 DEF SubmissionOK
    <2>5. PostsOK'
      BY <1>t, <2>1, <2>2, <2>3 DEF PostsOK
    <2>6. SentOnce'
      BY <1>t, <2>1 DEF SentOnce
    <2> QED
      BY <2>4, <2>5, <2>6
  <1>3. ASSUME NEW o \in Outcome, sendFile(o)
        PROVE  SubmissionOK' /\ PostsOK' /\ SentOnce'
    <2>1. Active("file") /\ bSub.files > 0 /\ bSub' = [bSub EXCEPT !.files = @ - 1] /\ bCount' = bCount
      BY <1>3 DEF sendFile
    <2>2. bSub # Idle /\ bSub \in Submission
      BY <1>i, <2>1
    <2>3. bSub' \in Submission /\ bSub'.id = bSub.id
      BY <2>1, <2>2 DEF Submission
    <2>4. bPosted' = bPosted \/ bPosted' = bPosted \cup {Posts("file")}
      BY <1>3, <1>h DEF sendFile
    <2>5. Posts("file").sub = bSub.id /\ Posts("file").kind # "text"
      BY <1>p
    <2> QED
      BY <2>1, <2>2, <2>3, <2>4, <2>5, CallKeepsPosts
  <1>4. CASE FilesSent
    <2>1. Active("file") /\ bPosted' = bPosted /\ bCount' = bCount
      BY <1>4 DEF FilesSent
    <2>2. bSub # Idle /\ bSub \in Submission
      BY <1>i, <2>1
    <2>3. bSub' = Idle \/ (bSub' \in Submission /\ bSub'.id = bSub.id)
      BY <1>4, <2>2 DEF FilesSent, Submission
    <2>4. Posts("none").sub = bSub.id
      BY <1>p
    <2> QED
      BY <2>1, <2>2, <2>3, <2>4, CallKeepsPosts
  <1>5. ASSUME NEW o \in Outcome, editMessage(o)
        PROVE  SubmissionOK' /\ PostsOK' /\ SentOnce'
    <2>1. Active("edit") /\ bSub' = Idle /\ bCount' = bCount
      BY <1>5 DEF editMessage, Finished
    <2>2. bSub # Idle
      BY <1>i, <2>1
    <2>3. bPosted' = bPosted \/ bPosted' = bPosted \cup {Posts("edit")}
      BY <1>5, <1>h DEF editMessage
    <2>4. Posts("edit").sub = bSub.id
      BY <1>p
    <2> QED
      BY <2>1, <2>2, <2>3, <2>4, CallKeepsPosts
  <1>6. ASSUME NEW o \in Outcome, sendMessage(o)
        PROVE  SubmissionOK' /\ PostsOK' /\ SentOnce'
    <2>1. Active("send") /\ bCount' = bCount /\ Happens("text", o)
      BY <1>6 DEF sendMessage
    <2>2. bSub # Idle /\ bSub \in Submission
      BY <1>i, <2>1
    <2>3. Posts("text").sub = bSub.id
      BY <1>p
    <2>4. CASE o = "refused" /\ bSub' = [bSub EXCEPT !.step = "rejoin"]
      <3>1. bPosted' = bPosted
        BY <2>1, <2>4 DEF Happens
      <3>2. bSub' \in Submission /\ bSub'.id = bSub.id
        BY <2>2, <2>4 DEF Submission
      <3> QED
        BY <2>1, <2>2, <2>3, <3>1, <3>2, CallKeepsPosts
    <2>5. CASE Answered(o)
      <3>1. bSub' = Idle
        BY <2>5 DEF Answered, Finished, Fails
      <3>2. bPosted' = bPosted \/ bPosted' = bPosted \cup {Posts("text")}
        BY <2>1, <1>h
      <3> QED
        BY <2>1, <2>2, <2>3, <3>1, <3>2, CallKeepsPosts
    <2> QED
      BY <1>6, <2>4, <2>5 DEF sendMessage
  <1>7. ASSUME NEW ok \in BOOLEAN, NEW joined \in BOOLEAN, rejoinServerRooms(ok, joined)
        PROVE  SubmissionOK' /\ PostsOK' /\ SentOnce'
    <2>1. Active("rejoin") /\ bPosted' = bPosted /\ bCount' = bCount
      BY <1>7 DEF rejoinServerRooms
    <2>2. bSub # Idle /\ bSub \in Submission
      BY <1>i, <2>1
    <2>3. bSub' = Idle \/ (bSub' \in Submission /\ bSub'.id = bSub.id)
      <3>1. bSub' = Idle \/ bSub' = [bSub EXCEPT !.step = "send", !.tried = TRUE]
        BY <1>7 DEF rejoinServerRooms, Fails, Finished
      <3> DEFINE s == [bSub EXCEPT !.step = "send"]
      <3>2. s \in Submission /\ s.id = bSub.id
        BY <2>2 DEF Submission
      <3>3. bSub' = Idle \/ bSub' = [s EXCEPT !.tried = TRUE]
        BY <3>1
      <3> HIDE DEF s
      <3>4. [s EXCEPT !.tried = TRUE] \in Submission /\ [s EXCEPT !.tried = TRUE].id = bSub.id
        BY <3>2 DEF Submission
      <3> QED
        BY <3>3, <3>4
    <2>4. Posts("none").sub = bSub.id
      BY <1>p
    <2> QED
      BY <2>1, <2>2, <2>3, <2>4, CallKeepsPosts
  <1>8. \/ UNCHANGED <<bSub, bPosted, bCount>>
        \/ handleSubmit \/ FilesSent
        \/ \E o \in Outcome : sendFile(o) \/ editMessage(o) \/ sendMessage(o)
        \/ \E ok, joined \in BOOLEAN : rejoinServerRooms(ok, joined)
    <2>1. CASE UNCHANGED composerVars
      BY <2>1 DEF composerVars
    <2>2. CASE TypingTimeout \/ stageFiles \/ removeStaged \/ Escape
      BY <2>2 DEF TypingTimeout, stageFiles, removeStaged, Escape
    <2>3. CASE \E t \in Text \cup {Nothing} : handleChange(t)
      BY <2>3 DEF handleChange
    <2>4. CASE \E t \in Text : startEdit(t)
      BY <2>4 DEF startEdit
    <2>5. CASE \E r \in BoxRoom : openChat(r) \/ LoseMembership(r) \/ TypingExpires(r)
      BY <2>5 DEF openChat, LoseMembership, TypingExpires
    <2>6. CASE \E x \in bNotices, lost \in BOOLEAN : NoticeArrives(x, lost)
      BY <2>6 DEF NoticeArrives
    <2> QED
      BY <2>1, <2>2, <2>3, <2>4, <2>5, <2>6 DEF ComposerNext
  <1> QED
    BY <1>1, <1>2, <1>3, <1>4, <1>5, <1>6, <1>7, <1>8

\* The box, the edit mode and the memberships stay well formed.
LEMMA BoxStep == ComposerInv /\ [ComposerNext]_composerVars /\ SubmissionOK' => ComposerTypeOK'
  <1> SUFFICES ASSUME ComposerInv, [ComposerNext]_composerVars, SubmissionOK'
               PROVE  ComposerTypeOK'
    OBVIOUS
  <1>t. /\ ComposerTypeOK
        /\ bSub # Idle => bSub \in Submission
    BY DEF ComposerInv, SubmissionOK
  <1> DEFINE BoxOK ==
        /\ bRoom \in BoxRoom /\ bText \in Text \cup {Nothing} /\ bFiles \in 0..1
        /\ bEditing \in {Nothing, bRoom}
        /\ bMember \subseteq BoxRoom /\ bCount \in 0..MaxSubmissions
  <1>b. BoxOK
    BY <1>t DEF ComposerTypeOK
  <1>q. SUFFICES BoxOK'
    <2>1. (bSub # Idle => bSub.room \in BoxRoom /\ bSub.step \in {"file", "send", "rejoin", "edit"})'
      BY DEF SubmissionOK, Submission
    <2> QED
      BY <2>1 DEF ComposerTypeOK
  <1>i. ASSUME NEW step, Active(step), step # "idle"
        PROVE  bSub \in Submission /\ bSub.room \in BoxRoom /\ bSub.text \in Text \cup {Nothing}
    BY <1>t, <1>i DEF Active, Idle, Submission
  <1>1. CASE UNCHANGED <<bRoom, bText, bFiles, bEditing, bMember, bCount>>
    BY <1>b, <1>1
  <1>2. CASE handleSubmit
    BY <1>b, <1>2, ComposerAssumption DEF handleSubmit
  <1>3. CASE stageFiles \/ removeStaged
    BY <1>b, <1>3 DEF stageFiles, removeStaged, typing
  <1>4. CASE Escape
    BY <1>b, <1>4 DEF Escape
  <1>5. ASSUME NEW t \in Text \cup {Nothing}, handleChange(t)
        PROVE  BoxOK'
    BY <1>b, <1>5 DEF handleChange
  <1>6. ASSUME NEW t \in Text, startEdit(t)
        PROVE  BoxOK'
    BY <1>b, <1>6 DEF startEdit
  <1>7. ASSUME NEW r \in BoxRoom, openChat(r)
        PROVE  BoxOK'
    BY <1>b, <1>7 DEF openChat
  <1>8. ASSUME NEW r \in BoxRoom, LoseMembership(r)
        PROVE  BoxOK'
    BY <1>b, <1>8 DEF LoseMembership, box
  <1>9. ASSUME NEW o \in Outcome, editMessage(o)
        PROVE  BoxOK'
    BY <1>b, <1>9 DEF editMessage
  <1>10. ASSUME NEW o \in Outcome, sendMessage(o)
         PROVE  BoxOK'
    <2>1. bSub.text \in Text \cup {Nothing}
      BY <1>i, <1>10 DEF sendMessage
    <2>2. bText' \in Text \cup {Nothing}
      BY <1>b, <1>10, <2>1 DEF sendMessage, Answered, Fails
    <2>3. UNCHANGED <<bRoom, bFiles, bEditing, bMember, bCount>>
      BY <1>10 DEF sendMessage
    <2> QED
      BY <1>b, <2>2, <2>3
  <1>11. ASSUME NEW ok \in BOOLEAN, NEW joined \in BOOLEAN, rejoinServerRooms(ok, joined)
         PROVE  BoxOK'
    <2>1. bSub.text \in Text \cup {Nothing} /\ bSub.room \in BoxRoom
      BY <1>i, <1>11 DEF rejoinServerRooms
    <2>2. bText' \in Text \cup {Nothing}
      BY <1>b, <1>11, <2>1 DEF rejoinServerRooms, Fails
    <2>3. bMember' \subseteq BoxRoom
      BY <1>b, <1>11, <2>1 DEF rejoinServerRooms
    <2>4. UNCHANGED <<bRoom, bFiles, bEditing, bCount>>
      BY <1>11 DEF rejoinServerRooms
    <2> QED
      BY <1>b, <2>2, <2>3, <2>4
  <1>12. \/ UNCHANGED <<bRoom, bText, bFiles, bEditing, bMember, bCount>>
         \/ handleSubmit \/ stageFiles \/ removeStaged \/ Escape
         \/ \E t \in Text \cup {Nothing} : handleChange(t)
         \/ \E t \in Text : startEdit(t)
         \/ \E r \in BoxRoom : openChat(r) \/ LoseMembership(r)
         \/ \E o \in Outcome : editMessage(o) \/ sendMessage(o)
         \/ \E ok, joined \in BOOLEAN : rejoinServerRooms(ok, joined)
    <2>1. CASE UNCHANGED composerVars
      BY <2>1 DEF composerVars
    <2>2. CASE TypingTimeout
      BY <2>2 DEF TypingTimeout, box
    <2>3. CASE FilesSent
      BY <2>3 DEF FilesSent, box
    <2>4. CASE \E o \in Outcome : sendFile(o)
      BY <2>4 DEF sendFile, box
    <2>5. CASE \E r \in BoxRoom : TypingExpires(r)
      BY <2>5 DEF TypingExpires, box
    <2>6. CASE \E x \in bNotices, lost \in BOOLEAN : NoticeArrives(x, lost)
      BY <2>6 DEF NoticeArrives, box
    <2> QED
      BY <2>1, <2>2, <2>3, <2>4, <2>5, <2>6 DEF ComposerNext
  <1> QED
    BY <1>1, <1>2, <1>3, <1>4, <1>5, <1>6, <1>7, <1>8, <1>9, <1>10, <1>11, <1>12

\* The inductive invariant of the message box, of any number of rooms, texts,
\* submissions and changes of room.
LEMMA ComposerInvStep == ComposerInv /\ [ComposerNext]_composerVars => ComposerInv'
  BY TypingStep, SubmissionStep, BoxStep DEF ComposerInv

LEMMA ComposerInvAlways == ComposerSpec => []ComposerInv
  BY ComposerInvInit, ComposerInvStep, PTL DEF ComposerSpec

\* The box and the submission are well formed, also when a submission fails
\* after the room has changed (handleSubmit of MessageInput.tsx).
THEOREM ComposerTypes == ComposerSpec => []ComposerTypeOK
  <1>1. ComposerInv => ComposerTypeOK
    BY DEF ComposerInv
  <1> QED
    BY ComposerInvAlways, <1>1, PTL

\* useSendMessage posts the text of a submission at most once: it tries again
\* only after a refusal, which has posted nothing.
THEOREM TextSentOnce == ComposerSpec => []SentOnce
  <1>1. ComposerInv => SentOnce
    BY DEF ComposerInv
  <1> QED
    BY ComposerInvAlways, <1>1, PTL

\* useSendTyping: a notice is seen in the active room while the timer runs that takes
\* it back, or the notice that ends it is under way, was lost, or was overtaken.
THEOREM NoticeOnlyHere == ComposerSpec => []TypingOnlyHere
  <1>1. ComposerInv => TypingOnlyHere
    <2> SUFFICES ASSUME ComposerInv, NEW r \in bTold
                 PROVE  (Typed(r) /\ bTypingTimer) \/ Awaits(r, FALSE) \/ r \in bAstray
      BY DEF TypingOnlyHere
    <2>1. Typed(r) \/ Ends(r) \/ r \in bAstray
      BY DEF ComposerInv, TypingOK
    <2>2. Typed(r) => bTypingTimer
      BY DEF ComposerInv, TypingOK, Typed
    <2>3. Ends(r) => Awaits(r, FALSE)
      BY DEF ComposerInv, TypingOK, Notice, Ends, Awaits
    <2> QED
      BY <2>1, <2>2, <2>3
  <1> QED
    BY ComposerInvAlways, <1>1, PTL

-----------------------------------------------------------------------------
(***************************************************************************)
(* The frame of an app channel.                                            *)
(***************************************************************************)

\* Deliveries are of events that happened, and these of channels.
PendingOK ==
  /\ yPending \subseteq [event : yEvents, bus : {"timeline", "state"}, again : BOOLEAN]
  /\ \A e \in yEvents : e.room \in AppRoom

\* There is no subscription, or it is one that this or an earlier hop made.
SubscriptionOK ==
  /\ ySub = [label |-> ySub.label, of |-> ySub.of, seen |-> ySub.seen, n |-> ySub.n]
  /\ ySub.n \in Nat /\ ySub.n <= yHops
  /\ ySub.n = 0 => ySub.of = Unopened

\* What reached the frame came by a subscription, and what came by the present
\* one is in its seen set.
FrameOK ==
  \A m \in yFrame :
    /\ m.sub \in Nat /\ 1 <= m.sub /\ m.sub <= yHops
    /\ m.sub = ySub.n => m.event.id \in ySub.seen

BridgeInv ==
  /\ BridgeTypeOK /\ ForwardedOnce
  /\ yHops \in Nat /\ PendingOK /\ SubscriptionOK /\ FrameOK

\* No channel is open at first, and no event has happened.
LEMMA BridgeInvInit == BridgeInit => BridgeInv
  <1> SUFFICES ASSUME BridgeInit
               PROVE  BridgeInv
    OBVIOUS
  <1>1. ySub = NoSub /\ yHops = 0 /\ yRoom = Unopened /\ yRef = Unopened
    BY DEF BridgeInit
  <1>2. yEvents = {} /\ yPending = {} /\ yFrame = {} /\ yPosted = {} /\ yCatalog \subseteq DOMAIN Permission
    BY DEF BridgeInit
  <1>3. SubscriptionOK
    BY <1>1 DEF SubscriptionOK, NoSub
  <1>4. BridgeTypeOK
    BY <1>1, <1>2 DEF BridgeTypeOK, NoSub
  <1> QED
    BY <1>1, <1>2, <1>3, <1>4
    DEF BridgeInv, PendingOK, FrameOK, ForwardedOnce

\* A new subscription is of a hop that no message bears yet.
LEMMA NewSubscription ==
  ASSUME BridgeInv, yHops' = yHops + 1, NEW r, NEW catalog,
         ySub' = Subscription(r, catalog), UNCHANGED <<yFrame, yEvents, yPending, yPosted>>
  PROVE  /\ (yHops \in Nat /\ PendingOK /\ SubscriptionOK /\ FrameOK)'
         /\ ForwardedOnce'
         /\ ySub'.label \in {Unopened, r}
  <1>1. yHops \in Nat
    BY DEF BridgeInv
  <1>2. \/ ySub' = [label |-> r, of |-> yRef, seen |-> {}, n |-> yHops + 1]
        \/ ySub' = [label |-> Unopened, of |-> Unopened, seen |-> {}, n |-> 0]
    BY DEF Subscription, NoSub
  <1>3. SubscriptionOK'
    BY <1>1, <1>2 DEF SubscriptionOK
  <1>4. FrameOK'
    <2>1. \A m \in yFrame : m.sub \in Nat /\ 1 <= m.sub /\ m.sub <= yHops
      BY DEF BridgeInv, FrameOK
    <2>2. ySub'.n = 0 \/ ySub'.n = yHops + 1
      BY <1>2
    <2> QED
      BY <1>1, <2>1, <2>2 DEF FrameOK
  <1>5. PendingOK' /\ ForwardedOnce'
    <2>1. PendingOK'
      BY DEF BridgeInv, PendingOK
    <2> QED
      BY <2>1 DEF BridgeInv, ForwardedOnce
  <1>6. ySub'.label \in {Unopened, r}
    BY <1>2
  <1> QED
    BY <1>1, <1>3, <1>4, <1>5, <1>6

\* The delivery of an event: forwarded, marked as seen, and never twice.
LEMMA DeliveryStep ==
  ASSUME BridgeInv, NEW d \in yPending, Delivered(d)
  PROVE  BridgeInv'
  <1>1. /\ UNCHANGED <<yRoom, yRef, yCatalog, yPosted, yHops>>
        /\ yHops \in Nat
    BY DEF BridgeInv, Delivered
  <1>2. d.event.room \in AppRoom
    BY DEF BridgeInv, PendingOK
  <1>3. PendingOK'
    <2>1. \A f \in yPending' : f \in yPending \/ f = [d EXCEPT !.again = TRUE]
      BY DEF Delivered
    <2>2. d \in [event : yEvents, bus : {"timeline", "state"}, again : BOOLEAN]
      BY DEF BridgeInv, PendingOK
    <2>3. [d EXCEPT !.again = TRUE] \in [event : yEvents, bus : {"timeline", "state"}, again : BOOLEAN]
      BY <2>2
    <2>4. yEvents' = yEvents
      BY DEF Delivered
    <2> QED
      BY <2>1, <2>3, <2>4 DEF BridgeInv, PendingOK
  <1>4. CASE Listens(d)
    <2> DEFINE e == d.event
               old == {m \in yFrame : m.event = e /\ m.sub = ySub.n}
               new == [event |-> e, label |-> ySub.label, sub |-> ySub.n, times |-> Cardinality(old) + 1]
    <2>1. /\ ySub' = [ySub EXCEPT !.seen = @ \cup {e.id}]
          /\ yFrame' = yFrame \cup {new}
      BY <1>4 DEF Delivered, Forward
    <2>2. ySub.of = e.room /\ e.id \notin ySub.seen
      BY <1>4 DEF Listens
    <2>3. ySub' = [label |-> ySub.label, of |-> ySub.of, seen |-> ySub.seen \cup {e.id}, n |-> ySub.n]
      BY <2>1 DEF BridgeInv, SubscriptionOK
    <2>4. ySub.n \in Nat /\ 1 <= ySub.n /\ ySub.n <= yHops
      <3>1. ySub.of # Unopened
        BY <1>2, <2>2, BridgeAssumption
      <3> QED
        BY <3>1 DEF BridgeInv, SubscriptionOK
    \* Nothing that came by this subscription is this event.
    <2>5. old = {}
      BY <2>2 DEF BridgeInv, FrameOK
    <2>6. new.times = 1
      BY <2>5, FS_EmptySet
    <2>7. new.event = e /\ new.sub = ySub.n
      OBVIOUS
    <2> HIDE DEF old, new
    <2>8. ForwardedOnce'
      BY <2>1, <2>6 DEF BridgeInv, ForwardedOnce
    <2>9. SubscriptionOK'
      BY <1>1, <2>3, <2>4 DEF BridgeInv, SubscriptionOK
    <2>10. FrameOK'
      <3>1. ySub'.n = ySub.n /\ ySub'.seen = ySub.seen \cup {e.id}
        BY <2>3
      <3> QED
        BY <1>1, <2>1, <2>4, <2>7, <3>1 DEF BridgeInv, FrameOK
    <2>11. BridgeTypeOK'
      BY <1>1, <2>3 DEF BridgeInv, BridgeTypeOK
    <2> QED
      BY <1>1, <1>3, <2>8, <2>9, <2>10, <2>11 DEF BridgeInv
  <1>5. CASE ~Listens(d)
    <2>1. UNCHANGED <<ySub, yFrame>>
      BY <1>5 DEF Delivered
    <2> QED
      BY <1>1, <1>3, <2>1
      DEF BridgeInv, BridgeTypeOK, ForwardedOnce, SubscriptionOK, FrameOK
  <1> QED
    BY <1>4, <1>5

\* What a frame asked to send, refused or posted to the channel on the screen.
LEMMA SendStep ==
  ASSUME BridgeInv, NEW m \in yMail, NEW ok \in BOOLEAN, sendStateEvent(m, ok)
  PROVE  BridgeInv'
  <1>1. UNCHANGED <<yRoom, yRef, yCatalog, ySub, yEvents, yPending, yFrame, yHops>>
    BY DEF sendStateEvent
  <1>2. \/ yPosted' = yPosted
        \/ /\ Embedded(yRoom, yCatalog)
           /\ yPosted' = yPosted \cup {[room |-> yRoom, app |-> AppOf[yRoom], from |-> m.from]}
    BY DEF sendStateEvent
  <1>3. BridgeTypeOK'
    BY <1>1, <1>2 DEF BridgeInv, BridgeTypeOK, Embedded
  <1> QED
    BY <1>1, <1>3 DEF BridgeInv, ForwardedOnce, PendingOK, SubscriptionOK, FrameOK

\* Every step of the channels, the catalog, the SDK and the frame keeps
\* BridgeInv.
LEMMA BridgeInvStep == BridgeInv /\ [BridgeNext]_bridgeVars => BridgeInv'
  <1> SUFFICES ASSUME BridgeInv, [BridgeNext]_bridgeVars
               PROVE  BridgeInv'
    OBVIOUS
  <1>1. ASSUME NEW r \in AppRoom, openChannel(r)
        PROVE  BridgeInv'
    <2>1. /\ yHops' = yHops + 1 /\ ySub' = Subscription(r, yCatalog)
          /\ UNCHANGED <<yFrame, yEvents, yPending, yPosted, yCatalog>>
          /\ yRoom' = r /\ yRef' = r
      BY <1>1 DEF openChannel
    <2>2. /\ (yHops \in Nat /\ PendingOK /\ SubscriptionOK /\ FrameOK)'
          /\ ForwardedOnce'
          /\ ySub'.label \in {Unopened, r}
      BY <2>1, NewSubscription
    <2>3. BridgeTypeOK'
      BY <2>1, <2>2 DEF BridgeInv, BridgeTypeOK
    <2> QED
      BY <2>2, <2>3 DEF BridgeInv
  <1>2. ASSUME NEW catalog \in SUBSET DOMAIN Permission, reloadPermissions(catalog)
        PROVE  BridgeInv'
    <2>1. /\ yHops' = yHops + 1 /\ ySub' = Subscription(yRoom, catalog)
          /\ UNCHANGED <<yFrame, yEvents, yPending, yPosted, yRoom, yRef>>
          /\ yCatalog' = catalog
      BY <1>2 DEF reloadPermissions
    <2>2. /\ (yHops \in Nat /\ PendingOK /\ SubscriptionOK /\ FrameOK)'
          /\ ForwardedOnce'
          /\ ySub'.label \in {Unopened, yRoom}
      BY <2>1, NewSubscription
    <2>3. BridgeTypeOK'
      BY <2>1, <2>2 DEF BridgeInv, BridgeTypeOK
    <2> QED
      BY <2>2, <2>3 DEF BridgeInv
  <1>3. ASSUME NEW r \in AppRoom, NEW state \in BOOLEAN, EventHappens(r, state)
        PROVE  BridgeInv'
    <2> DEFINE e == [id |-> Cardinality(yEvents) + 1, room |-> r]
    <2>1. /\ yEvents' = yEvents \cup {e}
          /\ \A d \in yPending' :
               d \in yPending \/ \E b \in {"timeline", "state"} : d = [event |-> e, bus |-> b, again |-> FALSE]
      BY <1>3 DEF EventHappens
    <2>2. e.room \in AppRoom
      OBVIOUS
    <2> HIDE DEF e
    <2>3. PendingOK'
      <3>1. \A d \in yPending : d \in [event : yEvents', bus : {"timeline", "state"}, again : BOOLEAN]
        BY <2>1 DEF BridgeInv, PendingOK
      <3>2. \A b \in {"timeline", "state"} :
              [event |-> e, bus |-> b, again |-> FALSE]
                \in [event : yEvents', bus : {"timeline", "state"}, again : BOOLEAN]
        BY <2>1
      <3>3. \A f \in yEvents' : f.room \in AppRoom
        BY <2>1, <2>2 DEF BridgeInv, PendingOK
      <3> QED
        BY <2>1, <3>1, <3>2, <3>3 DEF PendingOK
    <2>4. UNCHANGED <<yRoom, yRef, yCatalog, ySub, yFrame, yPosted, yHops>>
      BY <1>3 DEF EventHappens
    <2> QED
      BY <2>3, <2>4
      DEF BridgeInv, BridgeTypeOK, ForwardedOnce, SubscriptionOK, FrameOK
  <1>4. CASE \/ UNCHANGED bridgeVars
             \/ \E r \in AppRoom \cup {Unopened}, valid \in BOOLEAN : postMessage(r, valid)
    BY <1>4
    DEF bridgeVars, postMessage, BridgeInv, BridgeTypeOK, ForwardedOnce, PendingOK, SubscriptionOK, FrameOK
  <1> QED
    BY <1>1, <1>2, <1>3, <1>4, DeliveryStep, SendStep DEF BridgeNext

\* The inductive invariant of the frame, of any number of channels, extensions,
\* events and hops.
LEMMA BridgeInvAlways == BridgeSpec => []BridgeInv
  BY BridgeInvInit, BridgeInvStep, PTL DEF BridgeSpec

\* useExtensionBridge.ts: the ref follows the channel, and the frame's messages
\* bear the channel on the screen or come from no subscription.
THEOREM BridgeTypes == BridgeSpec => []BridgeTypeOK
  <1>1. BridgeInv => BridgeTypeOK
    BY DEF BridgeInv
  <1> QED
    BY BridgeInvAlways, <1>1, PTL

\* The seen set of subscribeRoomEvents: an event that the timeline and the room
\* state both emit, and emit again, reaches the frame once by a subscription.
THEOREM EventForwardedOnce == BridgeSpec => []ForwardedOnce
  <1>1. BridgeInv => ForwardedOnce
    BY DEF BridgeInv
  <1> QED
    BY BridgeInvAlways, <1>1, PTL

-----------------------------------------------------------------------------
(***************************************************************************)
(* Paired peers: the book on disk.                                         *)
(***************************************************************************)

Row == [addrs : SUBSET Addr, granted : {"yes", "no", "unset"}]
Op == {"load", "add", "revoke", "grant", "remove"}
PeerCall ==
  [id : Nat, op : Op, peer : PeerId, addr : Addr, closes : BOOLEAN, stage : {"sent", "done", "failed"},
   found : BOOLEAN, rows : [PeerId -> Row]]

\* The book and the list are books; a peer without an address is not paired.
BookOK ==
  /\ pDisk \in [PeerId -> Row] /\ pKnown \in [PeerId -> Row]
  /\ \A p \in PeerId : pDisk[p].addrs = {} => pDisk[p] = Unpaired

CallsOK ==
  /\ pSent \in Nat /\ pPaired \in Nat /\ pCalls \subseteq PeerCall
  /\ ~pNative => pCalls = {} /\ pPaired = 0

\* A revoked peer is still in the book, and denied.
RevokedOK ==
  pRevoked \subseteq {p \in PeerId : pDisk[p] # Unpaired /\ pDisk[p].granted = "no"}

\* What listBrowserPeers makes of a row.
LEMMA ListedRow ==
  ASSUME NEW disk \in [PeerId -> Row], NEW p \in PeerId
  PROVE  /\ listBrowserPeers(disk) \in [PeerId -> Row]
         /\ listBrowserPeers(disk)[p].granted # "unset"
         /\ listBrowserPeers(disk)[p].addrs = disk[p].addrs
         /\ disk[p].granted # "unset" => listBrowserPeers(disk)[p] = disk[p]
         /\ listBrowserPeers(disk)[p] = Unpaired <=> disk[p] = Unpaired
  <1>1. \A q \in PeerId : [disk[q] EXCEPT !.granted = "yes"] \in Row
    BY DEF Row
  <1>2. listBrowserPeers(disk) \in [PeerId -> Row]
    BY <1>1 DEF listBrowserPeers
  <1>3. listBrowserPeers(disk)[p] =
          IF disk[p].granted = "unset" THEN [disk[p] EXCEPT !.granted = "yes"] ELSE disk[p]
    BY DEF listBrowserPeers
  <1>4. disk[p] \in Row
    OBVIOUS
  <1> HIDE DEF listBrowserPeers
  <1>5. CASE disk[p].granted = "unset"
    BY <1>2, <1>3, <1>4, <1>5 DEF Row, Unpaired
  <1>6. CASE disk[p].granted # "unset"
    BY <1>2, <1>3, <1>4, <1>6 DEF Row
  <1> QED
    BY <1>5, <1>6

\* A book whose rows all have the access flag is listed as it is.
LEMMA ListedBook ==
  ASSUME NEW disk \in [PeerId -> Row], \A p \in PeerId : disk[p].granted # "unset"
  PROVE  listBrowserPeers(disk) = disk
  BY DEF listBrowserPeers

\* What an operation writes: the row of its peer, in a book whose rows have all
\* got their flag; and what it leaves of a denial.
LEMMA WrittenRow ==
  ASSUME BookOK, RevokedOK, NEW op \in Op, NEW p \in PeerId, NEW a \in Addr, Write(op, p, a)
  PROVE  /\ pDisk' \in [PeerId -> Row]
         /\ \A q \in PeerId : pDisk'[q].addrs = {} => pDisk'[q] = Unpaired
         /\ op = "load" => pDisk' = pDisk
         /\ op # "load" => \A q \in PeerId :
               /\ pDisk'[q].granted # "unset"
               /\ q # p => pDisk'[q] = listBrowserPeers(pDisk)[q]
         /\ op \notin {"load", "add"} /\ pDisk[p] = Unpaired => pDisk'[p] = Unpaired
         /\ RevokedOK'
  <1> DEFINE rows == listBrowserPeers(pDisk)
  <1>1. /\ rows \in [PeerId -> Row]
        /\ \A q \in PeerId :
             /\ rows[q].granted # "unset" /\ rows[q].addrs = pDisk[q].addrs
             /\ pDisk[q].granted # "unset" => rows[q] = pDisk[q]
             /\ rows[q] = Unpaired <=> pDisk[q] = Unpaired
    <2>1. pDisk \in [PeerId -> Row]
      BY DEF BookOK
    <2> QED
      BY <2>1, ListedRow
  <1>2. \A q \in PeerId : pDisk[q] \in Row /\ (pDisk[q].addrs = {} => pDisk[q] = Unpaired)
    BY DEF BookOK
  <1>3. /\ op = "load" => pDisk' = pDisk
        /\ op = "add" => pDisk' = addPeer(rows, p, a)
        /\ op = "revoke" => pDisk' = revokePeerAccess(rows, p)
        /\ op = "grant" => pDisk' = grantPeerAccess(rows, p)
        /\ op = "remove" => pDisk' = removePeer(rows, p)
    BY DEF Write, Written
  <1>4. /\ op = "revoke" => pRevoked' \subseteq pRevoked \cup (IF pDisk[p] = Unpaired THEN {} ELSE {p})
        /\ op \in {"grant", "remove"} => pRevoked' = pRevoked \ {p}
        /\ op \in {"load", "add"} => pRevoked' = pRevoked
    BY DEF Write
  <1>5. rows[p] \in Row /\ Unpaired \in Row /\ Unpaired.granted = "no" /\ Unpaired.addrs = {}
    BY <1>1 DEF Row, Unpaired
  <1> HIDE DEF rows
  \* The row of the peer, by operation.
  <1> DEFINE Replaced(row) ==
        /\ pDisk' = [rows EXCEPT ![p] = row] /\ row \in Row /\ row.granted # "unset"
        /\ row.addrs = {} => row = Unpaired
  <1>6. op = "add" => \E row : Replaced(row) /\ row # Unpaired
                                /\ (pDisk[p] # Unpaired => row.granted = rows[p].granted)
    <2> SUFFICES ASSUME op = "add" PROVE \E row : Replaced(row) /\ row # Unpaired
                                /\ (pDisk[p] # Unpaired => row.granted = rows[p].granted)
      OBVIOUS
    <2> DEFINE row == [addrs |-> rows[p].addrs \cup {a},
                       granted |-> IF rows[p] = Unpaired THEN "yes" ELSE rows[p].granted]
    <2>1. pDisk' = [rows EXCEPT ![p] = row]
      BY <1>1, <1>3 DEF addPeer
    <2>2. row \in Row /\ row.granted # "unset" /\ row.addrs # {}
      BY <1>1, <1>5 DEF Row
    <2>3. pDisk[p] # Unpaired => row.granted = rows[p].granted
      BY <1>1
    <2> HIDE DEF row
    <2> QED
      BY <1>5, <2>1, <2>2, <2>3
  <1>7. op \in {"revoke", "grant"} =>
          \/ pDisk[p] = Unpaired /\ pDisk' = rows
          \/ \E row : /\ Replaced(row) /\ row # Unpaired /\ pDisk[p] # Unpaired
                      /\ op = "revoke" => row.granted = "no"
    <2> SUFFICES ASSUME op \in {"revoke", "grant"}, pDisk[p] # Unpaired
                 PROVE  \E row : /\ Replaced(row) /\ row # Unpaired
                                 /\ op = "revoke" => row.granted = "no"
      BY <1>1, <1>3 DEF revokePeerAccess, grantPeerAccess
    <2> DEFINE row == [rows[p] EXCEPT !.granted = IF op = "revoke" THEN "no" ELSE "yes"]
    <2>1. pDisk' = [rows EXCEPT ![p] = row]
      BY <1>1, <1>3 DEF revokePeerAccess, grantPeerAccess
    <2>2. row \in Row /\ row.granted # "unset" /\ row.addrs # {} /\ (op = "revoke" => row.granted = "no")
      BY <1>1, <1>2, <1>5 DEF Row
    <2> HIDE DEF row
    <2> QED
      BY <1>5, <2>1, <2>2
  <1>8. op = "remove" => Replaced(Unpaired)
    BY <1>3, <1>5 DEF removePeer
  <1> HIDE DEF Replaced
  <1>9. ASSUME NEW row, Replaced(row)
        PROVE  /\ pDisk' \in [PeerId -> Row] /\ pDisk'[p] = row
               /\ \A q \in PeerId :
                    /\ pDisk'[q].granted # "unset" /\ (pDisk'[q].addrs = {} => pDisk'[q] = Unpaired)
                    /\ q # p => pDisk'[q] = rows[q]
    BY <1>1, <1>2, <1>9 DEF Replaced
  <1>10. \A q \in pRevoked : /\ q \in PeerId /\ pDisk[q] # Unpaired /\ pDisk[q].granted = "no"
                             /\ rows[q] = pDisk[q]
    BY <1>1 DEF RevokedOK
  <1>11. CASE op = "load"
    BY <1>2, <1>3, <1>4, <1>10, <1>11 DEF BookOK, RevokedOK
  <1>12. CASE op = "add"
    <2>1. PICK row : Replaced(row) /\ row # Unpaired /\ (pDisk[p] # Unpaired => row.granted = rows[p].granted)
      BY <1>6, <1>12
    <2>2. RevokedOK'
      BY <1>4, <1>9, <1>10, <1>12, <2>1 DEF RevokedOK
    <2> QED
      BY <1>9, <1>12, <2>1, <2>2 DEF rows
  <1>13. CASE op \in {"revoke", "grant"}
    <2>1. CASE pDisk[p] = Unpaired /\ pDisk' = rows
      <3>1. RevokedOK'
        BY <1>4, <1>10, <1>13, <2>1 DEF RevokedOK
      <3> QED
        BY <1>1, <1>2, <1>13, <2>1, <3>1 DEF rows
    <2>2. ASSUME NEW row, Replaced(row), row # Unpaired, pDisk[p] # Unpaired,
                 op = "revoke" => row.granted = "no"
          PROVE  RevokedOK'
      BY <1>4, <1>9, <1>10, <1>13, <2>2 DEF RevokedOK
    <2> QED
      BY <1>7, <1>9, <1>13, <2>1, <2>2 DEF rows
  <1>14. CASE op = "remove"
    <2>1. RevokedOK'
      BY <1>4, <1>8, <1>9, <1>10, <1>14 DEF RevokedOK
    <2> QED
      BY <1>8, <1>9, <1>14, <2>1 DEF rows
  <1> QED
    BY <1>11, <1>12, <1>13, <1>14 DEF Op

-----------------------------------------------------------------------------
(***************************************************************************)
(* Paired peers: the list, a mirror of the book.                           *)
(***************************************************************************)

\* While calls do not overlap and no event is missed: the list is the book
\* unless the call under way has changed it, and then the call's answer makes
\* it the book; the answer of a load is the book.
MirrorOK ==
  ~pDrift =>
    /\ \A c, d \in pCalls : c = d
    /\ pLoaded /\ pPaired = 0 =>
         /\ pCalls = {} => pKnown = listBrowserPeers(pDisk)
         /\ \A c \in pCalls :
              /\ c.op # "load" /\ c.stage # "done" => pKnown = listBrowserPeers(pDisk)
              /\ c.op \notin {"load", "add"} /\ c.stage = "done" =>
                   Mirrored(pKnown, c.found, c.peer, c.rows[c.peer]) = listBrowserPeers(pDisk)
    /\ pPaired = 0 => \A c \in pCalls : c.op = "load" /\ c.stage = "done" => c.rows = listBrowserPeers(pDisk)

BookInv == BookOK /\ CallsOK /\ RevokedOK /\ MirrorOK

\* The answer of revoke, grant and remove makes a list that was the book the
\* book again.
LEMMA AnswerMirrors ==
  ASSUME BookOK, RevokedOK, pKnown = listBrowserPeers(pDisk),
         NEW op \in Op, op \notin {"load", "add"}, NEW p \in PeerId, NEW a \in Addr, Write(op, p, a)
  PROVE  /\ listBrowserPeers(pDisk') = pDisk'
         /\ Mirrored(pKnown, pDisk[p] # Unpaired, p, pDisk'[p]) = pDisk'
  <1>1. /\ pDisk' \in [PeerId -> Row]
        /\ \A q \in PeerId : pDisk'[q].granted # "unset" /\ (q # p => pDisk'[q] = pKnown[q])
        /\ pDisk[p] = Unpaired => pDisk'[p] = Unpaired
    BY WrittenRow
  <1>2. listBrowserPeers(pDisk') = pDisk'
    BY <1>1, ListedBook
  <1>3. pKnown \in [PeerId -> Row] /\ (pKnown[p] = Unpaired <=> pDisk[p] = Unpaired)
    <2>1. pDisk \in [PeerId -> Row]
      BY DEF BookOK
    <2> QED
      BY <2>1, ListedRow
  <1>4. CASE pDisk[p] = Unpaired
    <2>1. Mirrored(pKnown, pDisk[p] # Unpaired, p, pDisk'[p]) = pKnown
      BY <1>4 DEF Mirrored
    <2>2. \A q \in PeerId : pDisk'[q] = pKnown[q]
      BY <1>1, <1>3, <1>4
    <2>3. pDisk' = pKnown
      BY <1>1, <1>3, <2>2
    <2> QED
      BY <1>2, <2>1, <2>3
  <1>5. CASE pDisk[p] # Unpaired
    <2>1. Mirrored(pKnown, pDisk[p] # Unpaired, p, pDisk'[p]) = [pKnown EXCEPT ![p] = pDisk'[p]]
      BY <1>3, <1>5 DEF Mirrored
    <2>2. [pKnown EXCEPT ![p] = pDisk'[p]] = pDisk'
      BY <1>1, <1>3
    <2> QED
      BY <1>2, <2>1, <2>2
  <1> QED
    BY <1>4, <1>5

\* A mirrored list is a list.
LEMMA MirroredType ==
  ASSUME NEW known \in [PeerId -> Row], NEW found, NEW p \in PeerId, NEW row \in Row
  PROVE  Mirrored(known, found, p, row) \in [PeerId -> Row]
  BY DEF Mirrored

\* The web build writes and mirrors at once.
LEMMA WebStep ==
  ASSUME BookInv, NEW op \in Op, NEW p \in PeerId, NEW a \in Addr, NEW ok \in BOOLEAN,
         WebCall(op, p, a, ok), UNCHANGED pNative
  PROVE  BookInv'
  <1>1. /\ BookOK /\ RevokedOK /\ MirrorOK
        /\ pSent' \in Nat /\ pPaired' = 0 /\ pCalls' = {} /\ pPaired = 0 /\ pCalls = {}
        /\ pDrift' = pDrift
    BY DEF BookInv, CallsOK, WebCall
  <1>2. CallsOK'
    BY <1>1 DEF CallsOK
  <1>3. MirrorOK' <=> (~pDrift /\ pLoaded' => pKnown' = listBrowserPeers(pDisk'))
    BY <1>1 DEF MirrorOK
  <1>4. pLoaded /\ ~pDrift => pKnown = listBrowserPeers(pDisk)
    BY <1>1 DEF MirrorOK
  <1>5. CASE ~ok
    <2>1. UNCHANGED <<pDisk, pKnown, pRevoked, pLoaded>>
      BY <1>5 DEF WebCall
    <2>2. BookOK' /\ RevokedOK'
      BY <1>1, <2>1 DEF BookOK, RevokedOK
    <2> QED
      BY <1>2, <1>3, <1>4, <2>1, <2>2 DEF BookInv
  <1>6. CASE ok
    <2>1. /\ Write(op, p, a)
          /\ op \notin {"load", "add"} /\ pLoaded' => pLoaded
          /\ pKnown' = IF op \in {"load", "add"} THEN listBrowserPeers(pDisk')
                       ELSE Mirrored(pKnown, pDisk[p] # Unpaired, p, pDisk'[p])
      BY <1>6 DEF WebCall
    <2>2. /\ pDisk' \in [PeerId -> Row]
          /\ \A q \in PeerId : pDisk'[q].addrs = {} => pDisk'[q] = Unpaired
          /\ RevokedOK'
      BY <1>1, <2>1, WrittenRow
    <2>3. pKnown' \in [PeerId -> Row]
      <3>1. listBrowserPeers(pDisk') \in [PeerId -> Row]
        BY <2>2, ListedRow
      <3>2. Mirrored(pKnown, pDisk[p] # Unpaired, p, pDisk'[p]) \in [PeerId -> Row]
        BY <1>1, <2>2, MirroredType DEF BookOK
      <3> QED
        BY <2>1, <3>1, <3>2
    <2>4. MirrorOK'
      <3>1. CASE op \in {"load", "add"}
        BY <1>3, <2>1, <3>1
      <3>2. CASE op \notin {"load", "add"} /\ pLoaded /\ ~pDrift
        <4>1. pKnown = listBrowserPeers(pDisk)
          BY <1>4, <3>2
        <4>2. /\ listBrowserPeers(pDisk') = pDisk'
              /\ Mirrored(pKnown, pDisk[p] # Unpaired, p, pDisk'[p]) = pDisk'
          BY <1>1, <2>1, <3>2, <4>1, AnswerMirrors
        <4> QED
          BY <1>3, <2>1, <3>2, <4>2
      <3> QED
        BY <1>3, <2>1, <3>1, <3>2
    <2> QED
      BY <1>2, <2>2, <2>3, <2>4 DEF BookInv, BookOK
  <1> QED
    BY <1>5, <1>6

\* A call is sent: while it is under way, another one is an overlap.
LEMMA SendsStep ==
  ASSUME BookInv, NEW op \in Op, NEW p \in PeerId, NEW a \in Addr, NEW closes \in BOOLEAN,
         Sends(op, p, a, closes), pNative, pNative' = pNative, pSent' = pSent + 1,
         pPaired' = pPaired \/ (op = "load" /\ pPaired' \in Nat)
  PROVE  BookInv'
  <1> DEFINE new == [id |-> pSent, op |-> op, peer |-> p, addr |-> a, closes |-> closes, stage |-> "sent",
                     found |-> FALSE, rows |-> pKnown]
  <1>1. /\ BookOK /\ CallsOK /\ RevokedOK /\ MirrorOK
        /\ UNCHANGED <<pDisk, pKnown, pRevoked, pLoaded>>
        /\ pCalls' = pCalls \cup {new}
        /\ ~pDrift' => ~pDrift /\ pCalls = {}
    BY DEF BookInv, Sends
  <1>2. new \in PeerCall /\ new.op = op /\ new.stage = "sent"
    BY <1>1 DEF PeerCall, BookOK, CallsOK
  <1> HIDE DEF new
  <1>3. BookOK' /\ RevokedOK'
    BY <1>1 DEF BookOK, RevokedOK
  <1>4. CallsOK'
    BY <1>1, <1>2 DEF CallsOK
  <1>5. MirrorOK'
    <2> SUFFICES ASSUME ~pDrift' PROVE MirrorOK'
      BY DEF MirrorOK
    <2>1. pCalls' = {new} /\ (pLoaded /\ pPaired = 0 => pKnown = listBrowserPeers(pDisk))
      BY <1>1 DEF MirrorOK
    <2>2. \A c \in pCalls' : c.op = op /\ c.stage = "sent"
      BY <1>2, <2>1
    <2>3. op # "load" /\ pLoaded' /\ pPaired' = 0 => pKnown' = listBrowserPeers(pDisk')
      <3>1. listBrowserPeers(pDisk') = listBrowserPeers(pDisk)
        BY <1>1
      <3> QED
        BY <1>1, <2>1, <3>1
    <2>4. pCalls' # {} /\ \A c, d \in pCalls' : c = d
      BY <2>1
    <2> QED
      BY <2>2, <2>3, <2>4 DEF MirrorOK
  <1> QED
    BY <1>3, <1>4, <1>5 DEF BookInv

\* The backend carries a call out or fails it.
LEMMA ServedStep ==
  ASSUME BookInv, NEW c \in pCalls, NEW ok \in BOOLEAN, Served(c, ok)
  PROVE  BookInv'
  <1> DEFINE d == [c EXCEPT !.stage = IF ok THEN "done" ELSE "failed", !.rows = listBrowserPeers(pDisk'),
                            !.found = pDisk[c.peer] # Unpaired]
  <1>1. /\ BookOK /\ CallsOK /\ RevokedOK /\ MirrorOK
        /\ UNCHANGED <<pNative, pKnown, pSent, pPaired, pLoaded, pDrift>>
        /\ pCalls' = (pCalls \ {c}) \cup {d} /\ c.stage = "sent"
    BY DEF BookInv, Served, Stands
  <1>2. c \in PeerCall /\ pNative /\ c.op \in Op /\ c.peer \in PeerId /\ c.addr \in Addr
    BY <1>1 DEF CallsOK, PeerCall
  <1>3. /\ ok => Write(c.op, c.peer, c.addr)
        /\ ~ok => UNCHANGED <<pDisk, pRevoked>>
    BY DEF Served
  <1>4. BookOK' /\ RevokedOK'
    <2>1. CASE ok
      BY <1>1, <1>2, <1>3, <2>1, WrittenRow DEF BookOK
    <2>2. CASE ~ok
      BY <1>1, <1>3, <2>2 DEF BookOK, RevokedOK
    <2> QED
      BY <2>1, <2>2
  <1>5. /\ d \in PeerCall /\ d.op = c.op /\ d.peer = c.peer /\ d.rows = listBrowserPeers(pDisk')
        /\ d.stage = IF ok THEN "done" ELSE "failed"
        /\ d.found = (pDisk[c.peer] # Unpaired)
    <2>1. listBrowserPeers(pDisk') \in [PeerId -> Row]
      <3>1. pDisk' \in [PeerId -> Row]
        BY <1>4 DEF BookOK
      <3> QED
        BY <1>2, <3>1, ListedRow
    <2> QED
      BY <1>2, <2>1 DEF PeerCall
  <1> HIDE DEF d
  <1>6. CallsOK'
    BY <1>1, <1>2, <1>5 DEF CallsOK
  <1>7. MirrorOK'
    <2> SUFFICES ASSUME ~pDrift PROVE MirrorOK'
      BY <1>1 DEF MirrorOK
    <2>1. pCalls = {c} /\ pCalls' = {d}
      BY <1>1 DEF MirrorOK
    <2>2. (c.op # "load" /\ pLoaded /\ pPaired = 0) => pKnown = listBrowserPeers(pDisk)
      BY <1>1 DEF MirrorOK
    <2>3. (d.op # "load" /\ d.stage # "done" /\ pLoaded /\ pPaired = 0) => pKnown = listBrowserPeers(pDisk')
      BY <1>3, <1>5, <2>2
    <2>4. (d.op \notin {"load", "add"} /\ d.stage = "done" /\ pLoaded /\ pPaired = 0) =>
            Mirrored(pKnown, d.found, d.peer, d.rows[d.peer]) = listBrowserPeers(pDisk')
      <3> SUFFICES ASSUME d.op \notin {"load", "add"}, ok, pKnown = listBrowserPeers(pDisk)
                   PROVE  Mirrored(pKnown, d.found, d.peer, d.rows[d.peer]) = listBrowserPeers(pDisk')
        BY <1>5, <2>2
      <3>1. /\ listBrowserPeers(pDisk') = pDisk'
            /\ Mirrored(pKnown, pDisk[c.peer] # Unpaired, c.peer, pDisk'[c.peer]) = pDisk'
        BY <1>1, <1>2, <1>3, <1>5, AnswerMirrors
      <3> QED
        BY <1>5, <3>1
    <2>5. (pCalls # {} /\ \A e, f \in pCalls : e = f)'
      BY <2>1
    <2>6. \A e \in pCalls' : e = d
      BY <2>1
    <2> QED
      BY <1>1, <1>5, <2>3, <2>4, <2>5, <2>6 DEF MirrorOK
  <1> QED
    BY <1>4, <1>6, <1>7 DEF BookInv

\* The store gets an answer: an addition goes on with a load, a load replaces
\* the list, and the others change their peer in it.
LEMMA AnswerStep ==
  ASSUME BookInv, NEW c \in pCalls, addFromCard(c) \/ load(c) \/ revokeAccess(c)
  PROVE  BookInv'
  <1>1. /\ BookOK /\ CallsOK /\ RevokedOK /\ MirrorOK
        /\ c \in PeerCall /\ pNative
    BY DEF BookInv, CallsOK
  <1>2. c.op \in Op /\ c.peer \in PeerId /\ c.rows \in [PeerId -> Row] /\ c.rows[c.peer] \in Row
    BY <1>1 DEF PeerCall
  <1>3. CASE addFromCard(c)
    <2> DEFINE d == [c EXCEPT !.op = "load", !.stage = "sent"]
    <2>1. /\ UNCHANGED <<pNative, pDisk, pKnown, pRevoked, pSent, pPaired, pLoaded>>
          /\ pCalls' = (pCalls \ {c}) \cup {d}
          /\ ~pDrift' => pCalls = {c}
      BY <1>3 DEF addFromCard, Stands
    <2>2. d \in PeerCall /\ d.op = "load" /\ d.stage = "sent"
      BY <1>1 DEF PeerCall, Op
    <2> HIDE DEF d
    <2>3. BookOK' /\ RevokedOK' /\ CallsOK'
      BY <1>1, <2>1, <2>2 DEF BookOK, RevokedOK, CallsOK
    <2>4. MirrorOK'
      <3> SUFFICES ASSUME ~pDrift' PROVE MirrorOK'
        BY DEF MirrorOK
      <3>1. pCalls' = {d}
        BY <2>1
      <3>2. /\ pCalls' # {} /\ \A e, f \in pCalls' : e = f
            /\ \A e \in pCalls' : e.op = "load" /\ e.stage = "sent"
        BY <2>2, <3>1
      <3> QED
        BY <3>2 DEF MirrorOK
    <2> QED
      BY <2>3, <2>4 DEF BookInv
  <1>4. CASE load(c)
    <2>1. /\ UNCHANGED <<pNative, pDisk, pRevoked, pSent, pPaired>>
          /\ pCalls' = pCalls \ {c} /\ c.op = "load"
          /\ pKnown' = IF c.stage = "done" THEN c.rows ELSE pKnown
          /\ ~pDrift' => ~pDrift /\ c.stage = "done"
      BY <1>4 DEF load
    <2>2. BookOK' /\ RevokedOK' /\ CallsOK'
      BY <1>1, <1>2, <2>1 DEF BookOK, RevokedOK, CallsOK
    <2>3. MirrorOK'
      <3> SUFFICES ASSUME ~pDrift' PROVE MirrorOK'
        BY DEF MirrorOK
      <3>1. pCalls' = {}
        BY <1>1, <2>1 DEF MirrorOK
      <3>2. pPaired' = 0 => pKnown' = listBrowserPeers(pDisk')
        <4>1. pPaired = 0 => c.rows = listBrowserPeers(pDisk)
          BY <1>1, <2>1 DEF MirrorOK
        <4>2. listBrowserPeers(pDisk') = listBrowserPeers(pDisk)
          BY <2>1
        <4> QED
          BY <2>1, <4>1, <4>2
      <3> QED
        BY <3>1, <3>2 DEF MirrorOK
    <2> QED
      BY <2>2, <2>3 DEF BookInv
  <1>5. CASE revokeAccess(c)
    <2>1. /\ UNCHANGED <<pNative, pDisk, pRevoked, pSent, pPaired, pLoaded, pDrift>>
          /\ pCalls' = pCalls \ {c} /\ c.op # "load"
          /\ c.stage = "failed" \/ (c.op # "add" /\ c.stage = "done")
          /\ pKnown' = Mirrored(pKnown, c.stage = "done" /\ c.found, c.peer, c.rows[c.peer])
      BY <1>5 DEF revokeAccess, Stands
    <2>2. BookOK' /\ RevokedOK' /\ CallsOK'
      <3>1. pKnown' \in [PeerId -> Row]
        BY <1>1, <1>2, <2>1, MirroredType DEF BookOK
      <3> QED
        BY <1>1, <2>1, <3>1 DEF BookOK, RevokedOK, CallsOK
    <2>3. MirrorOK'
      <3> SUFFICES ASSUME ~pDrift PROVE MirrorOK'
        BY <2>1 DEF MirrorOK
      <3>1. pCalls' = {}
        BY <1>1, <2>1 DEF MirrorOK
      <3>2. listBrowserPeers(pDisk') = listBrowserPeers(pDisk)
        BY <2>1
      <3>3. CASE c.stage = "failed"
        <4>1. pKnown' = pKnown
          BY <2>1, <3>3 DEF Mirrored
        <4>2. pLoaded /\ pPaired = 0 => pKnown = listBrowserPeers(pDisk)
          BY <1>1, <2>1, <3>3 DEF MirrorOK
        <4> QED
          BY <2>1, <3>1, <3>2, <4>1, <4>2 DEF MirrorOK
      <3>4. CASE c.op \notin {"load", "add"} /\ c.stage = "done"
        <4>1. pLoaded /\ pPaired = 0 =>
                Mirrored(pKnown, c.found, c.peer, c.rows[c.peer]) = listBrowserPeers(pDisk)
          BY <1>1, <3>4 DEF MirrorOK
        <4>2. pKnown' = Mirrored(pKnown, c.found, c.peer, c.rows[c.peer])
          BY <2>1, <3>4 DEF Mirrored
        <4> QED
          BY <2>1, <3>1, <3>2, <4>1, <4>2 DEF MirrorOK
      <3> QED
        BY <2>1, <3>3, <3>4
    <2> QED
      BY <2>2, <2>3 DEF BookInv
  <1> QED
    BY <1>3, <1>4, <1>5

\* A peer pairs through a deeplink, which only the event tells the store.
LEMMA DeeplinkStep ==
  ASSUME BookInv, NEW p \in PeerId, NEW a \in Addr, DeeplinkPairs(p, a)
  PROVE  BookInv'
  <1>1. /\ BookOK /\ CallsOK /\ RevokedOK /\ MirrorOK
        /\ UNCHANGED <<pNative, pKnown, pCalls, pLoaded>> /\ pSent' = pSent + 1 /\ pNative
        /\ Write("add", p, a)
        /\ \/ pPaired' = pPaired + 1 /\ UNCHANGED pDrift
           \/ pDrift' = TRUE /\ UNCHANGED pPaired
    BY DEF BookInv, DeeplinkPairs, Stands
  <1>2. BookOK' /\ RevokedOK'
    <2>1. "add" \in Op
      BY DEF Op
    <2>2. pDisk' \in [PeerId -> Row] /\ (\A q \in PeerId : pDisk'[q].addrs = {} => pDisk'[q] = Unpaired) /\ RevokedOK'
      BY <1>1, <2>1, WrittenRow
    <2> QED
      BY <1>1, <2>2 DEF BookOK
  <1>3. CallsOK'
    BY <1>1 DEF CallsOK
  <1>4. MirrorOK'
    <2> SUFFICES ASSUME ~pDrift' PROVE MirrorOK'
      BY DEF MirrorOK
    <2>1. pPaired' # 0 /\ ~pDrift
      BY <1>1 DEF CallsOK
    <2> QED
      BY <1>1, <2>1 DEF MirrorOK
  <1> QED
    BY <1>2, <1>3, <1>4 DEF BookInv

\* What a step of the peers does to the book, the list and the calls.
BookStep ==
  \/ UNCHANGED <<pDisk, pKnown, pRevoked, pCalls, pSent, pPaired, pLoaded, pDrift>>
  \/ \E op \in Op, p \in PeerId, a \in Addr, ok \in BOOLEAN :
       WebCall(op, p, a, ok) \/ NativeCall(op, p, a, ok)
  \/ \E c \in pCalls :
       (\E ok \in BOOLEAN : Served(c, ok)) \/ addFromCard(c) \/ load(c) \/ revokeAccess(c)
  \/ \E p \in PeerId, a \in Addr : DeeplinkPairs(p, a)
  \/ peerPaired

\* The images being decoded hold cards of peers.
ReadingOK == \A r \in pReading : r.peer \in PeerId /\ r.addr \in Addr

\* A card is added, from wherever it comes.
LEMMA AddIsBookStep ==
  ASSUME NEW p \in PeerId, NEW a \in Addr, NEW ok \in BOOLEAN, handleAdd(p, a, ok)
  PROVE  BookStep
  <1>1. "add" \in Op /\ TRUE \in BOOLEAN
    BY DEF Op
  <1>2. WebCall("add", p, a, ok) \/ NativeCall("add", p, a, TRUE)
    BY DEF handleAdd
  <1> QED
    BY <1>1, <1>2, Zenon DEF BookStep

LEMMA PeerSteps ==
  ASSUME ReadingOK, [PeerNext]_peerVars
  PROVE  BookStep /\ UNCHANGED pNative /\ ReadingOK'
  <1> DEFINE Goal == BookStep /\ UNCHANGED pNative /\ ReadingOK'
             Still == UNCHANGED <<pDisk, pKnown, pRevoked, pCalls, pSent, pPaired, pLoaded, pDrift>>
  <1>s. ASSUME Still, UNCHANGED <<pNative, pReading>>
        PROVE  Goal
    BY <1>s DEF BookStep, ReadingOK
  <1>r. ASSUME BookStep, UNCHANGED <<pNative, pReading>>
        PROVE  Goal
    BY <1>r DEF ReadingOK
  <1> HIDE DEF Goal
  <1>1. ASSUME NEW p \in PeerId, NEW op \in {"load", "revoke", "grant", "remove"}, NEW ok \in BOOLEAN,
               Asks(op, p, ok)
        PROVE  Goal
    <2>1. op \in Op /\ FALSE \in BOOLEAN
      BY DEF Op
    <2>2. \E a \in Addr : WebCall(op, p, a, ok) \/ NativeCall(op, p, a, FALSE)
      BY <1>1 DEF Asks
    <2>3. BookStep
      BY <2>1, <2>2, Zenon DEF BookStep
    <2> QED
      BY <1>1, <1>r, <2>3 DEF Asks
  <1>2. ASSUME NEW c \in pCalls, load(c) \/ addFromCard(c) \/ revokeAccess(c)
        PROVE  Goal
    <2>1. BookStep
      BY <1>2, Zenon DEF BookStep
    <2>2. UNCHANGED <<pNative, pReading>>
      BY <1>2 DEF load, addFromCard, revokeAccess, Stands
    <2> QED
      BY <1>r, <2>1, <2>2
  <1>3. ASSUME NEW c \in pCalls, NEW ok \in BOOLEAN, Served(c, ok)
        PROVE  Goal
    <2>1. BookStep
      BY <1>3, Zenon DEF BookStep
    <2> QED
      BY <1>3, <1>r, <2>1 DEF Served, Stands
  <1>4. ASSUME NEW ok \in BOOLEAN, ensureEventSubscription(ok)
        PROVE  Goal
    BY <1>4, <1>s DEF ensureEventSubscription, Stands
  <1>5. ASSUME peerPaired
        PROVE  Goal
    <2>1. BookStep
      BY <1>5 DEF BookStep
    <2> QED
      BY <1>5, <1>r, <2>1 DEF peerPaired, Stands
  <1>6. ASSUME closeScanner \/ Rerender
        PROVE  Goal
    BY <1>6, <1>s DEF closeScanner, Rerender, diskVars
  <1>7. ASSUME NEW tab, showTab(tab)
        PROVE  Goal
    BY <1>7, <1>s DEF showTab, diskVars
  <1>8. ASSUME NEW c \in pCameras, StreamGiven(c) \/ \E new \in BOOLEAN : StreamRefused(c, new)
        PROVE  Goal
    BY <1>8, <1>s DEF StreamGiven, StreamRefused, diskVars
  <1>9. ASSUME NEW p \in PeerId, NEW a \in Addr, DeeplinkPairs(p, a)
        PROVE  Goal
    <2>1. BookStep
      BY <1>9, Zenon DEF BookStep
    <2> QED
      BY <1>9, <1>r, <2>1 DEF DeeplinkPairs, Stands
  <1>10. ASSUME NEW p \in PeerId, NEW a \in Addr, NEW n, handleFile(p, a, n)
         PROVE  Goal
    <2>1. ReadingOK' /\ UNCHANGED pNative /\ Still
      BY <1>10 DEF handleFile, diskVars, ReadingOK
    <2> QED
      BY <2>1 DEF Goal, BookStep
  <1>11. ASSUME NEW p \in PeerId, NEW a \in Addr, NEW at \in 1..MaxPairing, CardSeen(p, a, at)
         PROVE  Goal
    BY <1>11, <1>s DEF CardSeen, diskVars
  <1>12. ASSUME NEW p \in PeerId, NEW a \in Addr, NEW ok \in BOOLEAN,
                handlePasteSubmit(p, a, ok) \/ onPick(p, a, ok)
         PROVE  Goal
    <2>1. handleAdd(p, a, ok) /\ UNCHANGED <<pNative, pReading>>
      BY <1>12 DEF handlePasteSubmit, onPick, Keeps
    <2> QED
      BY <1>r, <2>1, AddIsBookStep
  <1>13. ASSUME NEW p \in PeerId, NEW a \in Addr, NEW ok \in BOOLEAN, NEW c \in pCameras,
                CameraDecodes(c, p, a, ok)
         PROVE  Goal
    <2>1. "add" \in Op /\ TRUE \in BOOLEAN
      BY DEF Op
    <2>2. WebCall("add", p, a, ok) \/ NativeCall("add", p, a, TRUE)
      BY <1>13 DEF CameraDecodes
    <2>3. BookStep
      BY <2>1, <2>2, Zenon DEF BookStep
    <2> QED
      BY <1>13, <1>r, <2>3 DEF CameraDecodes, Keeps
  <1>14. ASSUME NEW r \in pReading, NEW card \in BOOLEAN, NEW ok \in BOOLEAN, ImageDecoded(r, card, ok)
         PROVE  Goal
    <2>1. UNCHANGED pNative /\ pReading' = pReading \ {r}
      BY <1>14 DEF ImageDecoded, Keeps
    <2>2. ReadingOK'
      BY <2>1 DEF ReadingOK
    <2>3. r.peer \in PeerId /\ r.addr \in Addr
      BY DEF ReadingOK
    <2>4. BookStep
      <3>1. CASE card
        BY <1>14, <2>3, <3>1, AddIsBookStep DEF ImageDecoded
      <3>2. CASE ~card
        BY <1>14, <3>2 DEF ImageDecoded, diskVars, BookStep
      <3> QED
        BY <3>1, <3>2
    <2> QED
      BY <2>1, <2>2, <2>4 DEF Goal
  <1>15. ASSUME UNCHANGED peerVars
         PROVE  Goal
    BY <1>15, <1>s DEF peerVars, diskVars
  <1>16. Goal
    BY <1>1, <1>2, <1>3, <1>4, <1>5, <1>6, <1>7, <1>8, <1>9, <1>10, <1>11, <1>12, <1>13, <1>14, <1>15
    DEF PeerNext
  <1> QED
    BY <1>16 DEF Goal

\* Every step keeps the book, the list and the calls in order.
LEMMA BookInvStep ==
  ASSUME BookInv, BookStep, UNCHANGED pNative
  PROVE  BookInv'
  <1>1. CASE UNCHANGED <<pDisk, pKnown, pRevoked, pCalls, pSent, pPaired, pLoaded, pDrift>>
    <2>1. BookOK' /\ RevokedOK' /\ CallsOK'
      BY <1>1 DEF BookInv, BookOK, RevokedOK, CallsOK
    <2>2. MirrorOK'
      BY <1>1 DEF BookInv, MirrorOK
    <2> QED
      BY <2>1, <2>2 DEF BookInv
  <1>2. ASSUME NEW op \in Op, NEW p \in PeerId, NEW a \in Addr, NEW ok \in BOOLEAN, WebCall(op, p, a, ok)
        PROVE  BookInv'
    BY <1>2, WebStep
  <1>3. ASSUME NEW op \in Op, NEW p \in PeerId, NEW a \in Addr, NEW closes \in BOOLEAN,
               NativeCall(op, p, a, closes)
        PROVE  BookInv'
    BY <1>3, SendsStep DEF NativeCall
  <1>4. CASE peerPaired
    <2>1. pNative /\ pPaired' \in Nat
      BY <1>4 DEF BookInv, CallsOK, peerPaired
    <2>2. PICK p \in PeerId, a \in Addr : Sends("load", p, a, FALSE)
      BY <1>4 DEF peerPaired
    <2>3. pSent' = pSent + 1 /\ "load" \in Op /\ FALSE \in BOOLEAN
      BY <1>4 DEF peerPaired, Op
    <2> QED
      BY <2>1, <2>2, <2>3, SendsStep
  <1> QED
    BY <1>1, <1>2, <1>3, <1>4, ServedStep, AnswerStep, DeeplinkStep DEF BookStep

\* Nothing is under way at first, and the denied peers are those on disk.
LEMMA BookInvInit == PeerInit => BookInv /\ ReadingOK
  <1> SUFFICES ASSUME PeerInit
               PROVE  BookInv /\ ReadingOK
    OBVIOUS
  <1>1. /\ pDisk \in [PeerId -> {Unpaired} \cup [addrs : {{a} : a \in Addr}, granted : {"yes", "no", "unset"}]]
        /\ pKnown = [p \in PeerId |-> Unpaired]
        /\ pRevoked = {p \in PeerId : pDisk[p] # Unpaired /\ pDisk[p].granted = "no"}
        /\ pCalls = {} /\ pSent = 0 /\ pPaired = 0 /\ pLoaded = FALSE /\ pReading = {}
    BY DEF PeerInit
  <1>2. Unpaired \in Row /\ [addrs : {{a} : a \in Addr}, granted : {"yes", "no", "unset"}] \subseteq Row
    BY DEF Row, Unpaired
  <1>3. \A p \in PeerId : pDisk[p] \in Row /\ (pDisk[p].addrs = {} => pDisk[p] = Unpaired)
    BY <1>1, <1>2
  <1>4. BookOK
    BY <1>1, <1>2, <1>3 DEF BookOK
  <1>5. CallsOK /\ RevokedOK /\ ReadingOK
    BY <1>1 DEF CallsOK, RevokedOK, ReadingOK
  <1>6. MirrorOK
    BY <1>1 DEF MirrorOK
  <1> QED
    BY <1>4, <1>5, <1>6 DEF BookInv

\* The inductive invariant of the book and the list, of any number of peers,
\* addresses, calls and events under way.
LEMMA BookInvAlways == PeerSpec => [](BookInv /\ ReadingOK)
  <1>1. BookInv /\ ReadingOK /\ [PeerNext]_peerVars => (BookInv /\ ReadingOK)'
    BY PeerSteps, BookInvStep
  <1> QED
    BY BookInvInit, <1>1, PTL DEF PeerSpec

\* peerStoreBrowser.ts: a repeat pairing, from whatever card or deeplink, does
\* not grant access to a revoked peer.
THEOREM RevocationHolds == PeerSpec => []RevokedStaysRevoked
  <1>1. BookInv /\ ReadingOK => RevokedStaysRevoked
    BY DEF BookInv, RevokedOK, RevokedStaysRevoked
  <1> QED
    BY BookInvAlways, <1>1, PTL

\* peerStore.ts: once loaded, the list is the book on disk whenever nothing is
\* under way, unless calls overlapped, a load failed or an event was missed.
THEOREM ListMirrorsDisk == PeerSpec => []MirrorOfDisk
  <1>1. BookInv /\ ReadingOK => MirrorOfDisk
    BY DEF BookInv, MirrorOK, MirrorOfDisk
  <1> QED
    BY BookInvAlways, <1>1, PTL

-----------------------------------------------------------------------------
(***************************************************************************)
(* Paired peers: the camera of the scanner.                                *)
(***************************************************************************)

Camera == [id : Nat, asking : BOOLEAN, cancelled : BOOLEAN, live : BOOLEAN]

\* Effects are numbered; one that was not cancelled is the last one, on the
\* camera tab, and a cancelled one holds no stream.
CamerasOK ==
  /\ pEffects \in Nat /\ pCameras \subseteq Camera
  /\ \A c \in pCameras :
       /\ c.id <= pEffects
       /\ c.live => ~c.cancelled
       /\ ~c.cancelled => pTab = "camera" /\ c.id = pEffects
  /\ \A c, d \in pCameras : c.id = d.id => c = d

\* The cleanup leaves cancelled effects, each of them one that was asking.
LEMMA CleanedCameras ==
  ASSUME CamerasOK, NEW cameras \in SUBSET pCameras
  PROVE  /\ \A c \in Cleaned(cameras) :
              /\ c \in Camera /\ c.id <= pEffects /\ c.cancelled /\ ~c.live
         /\ \A c, d \in Cleaned(cameras) : c.id = d.id => c = d
  <1> DEFINE Of(d) == [d EXCEPT !.cancelled = TRUE, !.live = FALSE]
  <1>1. \A d \in pCameras : Of(d) \in Camera /\ Of(d).id = d.id /\ Of(d).cancelled /\ ~Of(d).live
    <2>1. ASSUME NEW d \in Camera
          PROVE  Of(d) \in Camera /\ Of(d).id = d.id /\ Of(d).cancelled /\ ~Of(d).live
      BY <2>1 DEF Camera
    <2> QED
      BY <2>1 DEF CamerasOK
  <1>2. \A c \in Cleaned(cameras) : \E d \in pCameras : c = Of(d)
    BY Zenon DEF Cleaned
  <1> HIDE DEF Of
  <1>3. \A c \in Cleaned(cameras) : c \in Camera /\ c.id <= pEffects /\ c.cancelled /\ ~c.live
    BY <1>1, <1>2 DEF CamerasOK
  <1>4. \A c, d \in Cleaned(cameras) : c.id = d.id => c = d
    BY <1>1, <1>2 DEF CamerasOK
  <1> QED
    BY <1>3, <1>4

\* What a step does to the cameras: some go, all are cleaned up, or a new effect
\* starts on the camera tab, or a stream is given.
CameraStep ==
  \/ pCameras' \subseteq pCameras /\ UNCHANGED <<pEffects, pTab>>
  \/ pCameras' = Cleaned(pCameras) /\ UNCHANGED pEffects
  \/ /\ pEffects' = pEffects + 1 /\ pTab' = "camera"
     /\ \E cameras \in SUBSET pCameras : pCameras' = Started(cameras)
  \/ \E c \in pCameras : StreamGiven(c)

LEMMA CameraInvStep ==
  ASSUME CamerasOK, CameraStep
  PROVE  CamerasOK'
  <1>1. CASE pCameras' \subseteq pCameras /\ UNCHANGED <<pEffects, pTab>>
    BY <1>1 DEF CamerasOK
  <1>2. CASE pCameras' = Cleaned(pCameras) /\ UNCHANGED pEffects
    <2>1. /\ \A c \in pCameras' : c \in Camera /\ c.id <= pEffects /\ c.cancelled /\ ~c.live
          /\ \A c, d \in pCameras' : c.id = d.id => c = d
      BY <1>2, CleanedCameras
    <2> QED
      BY <1>2, <2>1 DEF CamerasOK
  <1>3. ASSUME pEffects' = pEffects + 1, pTab' = "camera",
               NEW cameras \in SUBSET pCameras, pCameras' = Started(cameras)
        PROVE  CamerasOK'
    <2> DEFINE new == [id |-> pEffects + 1, asking |-> TRUE, cancelled |-> FALSE, live |-> FALSE]
    <2>1. /\ \A c \in Cleaned(cameras) : c \in Camera /\ c.id <= pEffects /\ c.cancelled /\ ~c.live
          /\ \A c, d \in Cleaned(cameras) : c.id = d.id => c = d
      BY CleanedCameras
    <2>2. pCameras' = Cleaned(cameras) \cup {new} /\ pEffects \in Nat
      BY <1>3 DEF Started, CamerasOK
    <2>3. new \in Camera /\ new.id = pEffects + 1 /\ ~new.cancelled /\ ~new.live
      BY <2>2 DEF Camera
    <2> HIDE DEF new
    <2>4. \A c \in pCameras' : c = new \/ (c \in Cleaned(cameras) /\ c.id <= pEffects /\ c.id \in Nat)
      BY <2>1, <2>2 DEF Camera
    <2>5. \A c, d \in pCameras' : c.id = d.id => c = d
      BY <2>1, <2>2, <2>3, <2>4
    <2>6. \A c \in pCameras' : /\ c \in Camera /\ c.id <= pEffects'
                               /\ c.live => ~c.cancelled
                               /\ ~c.cancelled => pTab' = "camera" /\ c.id = pEffects'
      BY <1>3, <2>1, <2>2, <2>3, <2>4
    <2> QED
      BY <1>3, <2>2, <2>5, <2>6 DEF CamerasOK
  <1>4. ASSUME NEW c \in pCameras, StreamGiven(c)
        PROVE  CamerasOK'
    <2> DEFINE on == [c EXCEPT !.asking = FALSE, !.live = TRUE]
    <2>1. /\ pCameras' = (pCameras \ {c}) \cup (IF c.cancelled THEN {} ELSE {on})
          /\ UNCHANGED <<pEffects, pTab>>
      BY <1>4 DEF StreamGiven
    <2>2. c \in Camera
      BY DEF CamerasOK
    <2>3. on \in Camera /\ on.id = c.id /\ on.cancelled = c.cancelled
      BY <2>2 DEF Camera
    <2> HIDE DEF on
    <2>4. \A d \in pCameras' : (d \in pCameras /\ d # c) \/ (d = on /\ ~c.cancelled)
      BY <2>1
    <2>5. \A d \in pCameras' : /\ d \in Camera /\ d.id <= pEffects
                               /\ d.live => ~d.cancelled
                               /\ ~d.cancelled => pTab = "camera" /\ d.id = pEffects
      BY <2>3, <2>4 DEF CamerasOK
    <2>6. \A d, e \in pCameras' : d.id = e.id => d = e
      BY <2>3, <2>4 DEF CamerasOK
    <2> QED
      BY <2>1, <2>5, <2>6 DEF CamerasOK
  <1> QED
    BY <1>1, <1>2, <1>3, <1>4 DEF CameraStep

\* Adding a card closes the scanner, or leaves it as it is.
LEMMA AddIsCameraStep ==
  ASSUME NEW p, NEW a, NEW ok, handleAdd(p, a, ok), UNCHANGED pEffects
  PROVE  CameraStep
  BY DEF handleAdd, Unmount, CameraStep

LEMMA CameraSteps ==
  ASSUME CamerasOK, [PeerNext]_peerVars
  PROVE  CameraStep
  <1>s. ASSUME UNCHANGED <<pCameras, pEffects, pTab>>
        PROVE  CameraStep
    BY <1>s DEF CameraStep
  <1>1. ASSUME NEW p \in PeerId, NEW op \in {"load", "revoke", "grant", "remove"}, NEW ok \in BOOLEAN,
               Asks(op, p, ok)
        PROVE  CameraStep
    BY <1>1, <1>s DEF Asks, cameraVars
  <1>2. ASSUME NEW c \in pCalls, load(c)
        PROVE  CameraStep
    <2>1. CASE c.closes
      BY <1>2, <2>1 DEF load, Unmount, CameraStep
    <2>2. CASE ~c.closes
      BY <1>2, <2>2, <1>s DEF load
    <2> QED
      BY <2>1, <2>2
  <1>3. ASSUME NEW c \in pCalls, addFromCard(c) \/ revokeAccess(c) \/ \E ok \in BOOLEAN : Served(c, ok)
        PROVE  CameraStep
    <2>1. Stands
      BY <1>3, Zenon DEF addFromCard, revokeAccess, Served
    <2> QED
      BY <2>1, <1>s DEF Stands, cameraVars
  <1>4. ASSUME (\E ok \in BOOLEAN : ensureEventSubscription(ok)) \/ peerPaired
        PROVE  CameraStep
    <2>1. Stands
      BY <1>4 DEF ensureEventSubscription, peerPaired
    <2> QED
      BY <2>1, <1>s DEF Stands, cameraVars
  <1>5. ASSUME closeScanner
        PROVE  CameraStep
    BY <1>5 DEF closeScanner, Unmount, CameraStep
  <1>6. ASSUME Rerender
        PROVE  CameraStep
    BY <1>6 DEF Rerender, CameraStep
  <1>7. ASSUME NEW tab, showTab(tab)
        PROVE  CameraStep
    BY <1>7 DEF showTab, CameraStep
  <1>8. ASSUME NEW c \in pCameras, StreamGiven(c)
        PROVE  CameraStep
    BY <1>8 DEF CameraStep
  <1>9. ASSUME NEW c \in pCameras, NEW new \in BOOLEAN, StreamRefused(c, new)
        PROVE  CameraStep
    <2>1. CASE new /\ ~c.cancelled
      <3>1. pTab' = "camera"
        BY <1>9, <2>1 DEF StreamRefused, CamerasOK
      <3>2. pEffects' = pEffects + 1 /\ pCameras' = Started(pCameras \ {c})
        BY <1>9, <2>1 DEF StreamRefused
      <3> QED
        BY <3>1, <3>2 DEF CameraStep
    <2>2. CASE ~(new /\ ~c.cancelled)
      BY <1>9, <2>2 DEF StreamRefused, CameraStep
    <2> QED
      BY <2>1, <2>2
  <1>10. ASSUME NEW p \in PeerId, NEW a \in Addr, DeeplinkPairs(p, a) \/ \E n \in 1..MaxReading : handleFile(p, a, n)
         PROVE  CameraStep
    BY <1>10, <1>s DEF DeeplinkPairs, Stands, handleFile, cameraVars
  <1>11. ASSUME NEW p \in PeerId, NEW a \in Addr, NEW at \in 1..MaxPairing, CardSeen(p, a, at)
         PROVE  CameraStep
    BY <1>11, <1>s DEF CardSeen, cameraVars
  <1>12. ASSUME NEW p \in PeerId, NEW a \in Addr, NEW ok \in BOOLEAN,
                handlePasteSubmit(p, a, ok) \/ onPick(p, a, ok)
         PROVE  CameraStep
    <2>1. handleAdd(p, a, ok) /\ UNCHANGED pEffects
      BY <1>12 DEF handlePasteSubmit, onPick, Keeps
    <2> QED
      BY <2>1, AddIsCameraStep
  <1>13. ASSUME NEW p \in PeerId, NEW a \in Addr, NEW ok \in BOOLEAN, NEW c \in pCameras,
                CameraDecodes(c, p, a, ok)
         PROVE  CameraStep
    <2>1. UNCHANGED pEffects /\ (Unmount \/ (pCameras' = pCameras \ {c} /\ UNCHANGED pTab))
      BY <1>13 DEF CameraDecodes, Keeps
    <2> QED
      BY <2>1 DEF Unmount, CameraStep
  <1>14. ASSUME NEW r \in pReading, NEW card \in BOOLEAN, NEW ok \in BOOLEAN, ImageDecoded(r, card, ok)
         PROVE  CameraStep
    <2>1. UNCHANGED pEffects
      BY <1>14 DEF ImageDecoded, Keeps
    <2>2. handleAdd(r.peer, r.addr, ok) \/ UNCHANGED <<pTab, pCameras>>
      BY <1>14 DEF ImageDecoded
    <2> QED
      BY <1>s, <2>1, <2>2, AddIsCameraStep
  <1>15. ASSUME UNCHANGED peerVars
         PROVE  CameraStep
    BY <1>15, <1>s DEF peerVars, cameraVars
  <1> QED
    BY <1>1, <1>2, <1>3, <1>4, <1>5, <1>6, <1>7, <1>8, <1>9, <1>10, <1>11, <1>12, <1>13, <1>14, <1>15
    DEF PeerNext

\* ImageScan and its kin: a camera is on only while its tab is shown, and one
\* at a time, however fast the scanner is opened, closed and rendered again.
THEOREM CameraOnlyOnItsTab == PeerSpec => []CameraOff
  <1>1. PeerInit => CamerasOK
    BY DEF PeerInit, CamerasOK
  <1>2. CamerasOK /\ [PeerNext]_peerVars => CamerasOK'
    BY CameraSteps, CameraInvStep
  <1>3. CamerasOK => CameraOff
    BY DEF CamerasOK, CameraOff
  <1> QED
    BY <1>1, <1>2, <1>3, PTL DEF PeerSpec

-----------------------------------------------------------------------------
(***************************************************************************)
(* The cards seen in rooms: what sorting them newest first gives.          *)
(***************************************************************************)

CardT == [peer : PeerId, addr : Addr, at : Nat]

\* No two cards have one time.
Dated(S) == IsFiniteSet(S) /\ S \subseteq CardT /\ \A c, d \in S : c.at = d.at => c = d

\* How many cards are as new tells a card, and is taken by one.
LEMMA NewerRank ==
  ASSUME NEW S, Dated(S)
  PROVE  /\ Cardinality(S) \in Nat
         /\ \A c \in S : Cardinality(Newer(S, c)) \in 1..Cardinality(S)
         /\ \A c, d \in S : c.at > d.at => Cardinality(Newer(S, c)) < Cardinality(Newer(S, d))
         /\ \A c, d \in S : Cardinality(Newer(S, c)) = Cardinality(Newer(S, d)) => c = d
         /\ \A n \in 1..Cardinality(S) : \E c \in S : Cardinality(Newer(S, c)) = n
PROOF
<1> DEFINE K == Cardinality(S)
           f == [c \in S |-> Cardinality(Newer(S, c))]
<1>1. IsFiniteSet(S) /\ K \in Nat
  BY FS_CardinalityType DEF Dated
<1>2. \A c \in S : c.at \in Nat
  BY DEF Dated, CardT
<1>3. ASSUME NEW c \in S
      PROVE  /\ IsFiniteSet(Newer(S, c)) /\ Cardinality(Newer(S, c)) \in 1..K
  <2>1. Newer(S, c) \in SUBSET S
    BY DEF Newer
  <2>2. c \in Newer(S, c)
    BY <1>2 DEF Newer
  <2>3. IsFiniteSet(Newer(S, c)) /\ Cardinality(Newer(S, c)) <= K
    BY <1>1, <2>1, FS_Subset
  <2>4. Cardinality(Newer(S, c)) \in Nat /\ Cardinality(Newer(S, c)) # 0
    BY <2>2, <2>3, FS_CardinalityType, FS_EmptySet
  <2> QED BY <1>1, <2>3, <2>4
<1>4. ASSUME NEW c \in S, NEW d \in S, c.at > d.at
      PROVE  Cardinality(Newer(S, c)) < Cardinality(Newer(S, d))
  <2>1. \A e \in S : e.at >= c.at => e.at >= d.at
    BY <1>2, <1>4
  <2>2. Newer(S, c) \in SUBSET Newer(S, d)
    BY <2>1 DEF Newer
  <2>3. d \in Newer(S, d) /\ d \notin Newer(S, c)
    BY <1>2, <1>4 DEF Newer
  <2>4. Newer(S, c) # Newer(S, d)
    BY <2>3
  <2>5. Cardinality(Newer(S, c)) <= Cardinality(Newer(S, d)) /\ Cardinality(Newer(S, d)) # Cardinality(Newer(S, c))
    BY <1>3, <2>2, <2>4, FS_Subset
  <2>6. Cardinality(Newer(S, c)) \in Nat /\ Cardinality(Newer(S, d)) \in Nat
    BY <1>1, <1>3
  <2> QED BY <2>5, <2>6
<1>5. ASSUME NEW c \in S, NEW d \in S, Cardinality(Newer(S, c)) = Cardinality(Newer(S, d))
      PROVE  c = d
  <2>1. Cardinality(Newer(S, c)) \in Nat /\ Cardinality(Newer(S, d)) \in Nat
    BY <1>1, <1>3
  <2>2. ~(c.at > d.at) /\ ~(d.at > c.at)
    BY <1>4, <1>5, <2>1
  <2>3. c.at = d.at
    BY <1>2, <2>2
  <2> QED BY <2>3 DEF Dated
<1>6. f \in Injection(S, 1..K)
  BY <1>3, <1>5 DEF Injection, IsInjective
<1>7. IsFiniteSet(1..K) /\ Cardinality(1..K) = K
  BY <1>1, FS_Interval
<1>8. f \in Surjection(S, 1..K)
  <2> HIDE DEF f
  <2> QED BY <1>1, <1>6, <1>7, FS_Injection
<1>9. \A n \in 1..K : \E c \in S : Cardinality(Newer(S, c)) = n
  BY <1>8 DEF Surjection
<1> QED BY <1>1, <1>3, <1>4, <1>5, <1>9

\* Newest first.
Descending(s) == \A m, n \in DOMAIN s : m < n => s[m].at > s[n].at

LEMMA SortedFacts ==
  ASSUME NEW S, Dated(S)
  PROVE  /\ Sorted(S) \in Seq(S) /\ Len(Sorted(S)) = Cardinality(S) /\ Descending(Sorted(S))
         /\ \A c \in S : \E n \in DOMAIN Sorted(S) : Sorted(S)[n] = c
PROOF
<1> DEFINE K == Cardinality(S)
           s == Sorted(S)
<1>1. /\ K \in Nat
      /\ \A c \in S : Cardinality(Newer(S, c)) \in 1..K
      /\ \A c, d \in S : c.at > d.at => Cardinality(Newer(S, c)) < Cardinality(Newer(S, d))
      /\ \A c, d \in S : Cardinality(Newer(S, c)) = Cardinality(Newer(S, d)) => c = d
      /\ \A n \in 1..K : \E c \in S : Cardinality(Newer(S, c)) = n
  BY NewerRank
<1>2. s = [n \in 1..K |-> CHOOSE c \in S : Cardinality(Newer(S, c)) = n]
  BY DEF Sorted
<1> HIDE DEF s
<1>3. \A n \in 1..K : s[n] \in S /\ Cardinality(Newer(S, s[n])) = n
  BY <1>1, <1>2
<1>4. s \in Seq(S) /\ Len(s) = K /\ DOMAIN s = 1..K
  <2>1. s \in [1..K -> S]
    BY <1>2, <1>3
  <2> QED BY <1>1, <2>1
<1>5. Descending(s)
  <2> SUFFICES ASSUME NEW m \in 1..K, NEW n \in 1..K, m < n PROVE s[m].at > s[n].at
    BY <1>4 DEF Descending
  <2>1. s[m].at \in Nat /\ s[n].at \in Nat /\ s[m] # s[n]
    <3>1. m # n /\ s[m] \in CardT /\ s[n] \in CardT
      BY <1>1, <1>3 DEF Dated
    <3>2. s[m] # s[n]
      BY <1>3, <3>1
    <3> QED BY <3>1, <3>2 DEF CardT
  <2>2. s[m].at # s[n].at
    BY <1>3, <2>1 DEF Dated
  <2>3. ~(s[n].at > s[m].at)
    BY <1>1, <1>3
  <2> QED BY <2>1, <2>2, <2>3
<1>6. \A c \in S : s[Cardinality(Newer(S, c))] = c
  BY <1>1, <1>3
<1>7. \A c \in S : \E n \in DOMAIN s : s[n] = c
  BY <1>1, <1>4, <1>6
<1> QED BY <1>4, <1>5, <1>7 DEF s

\* Of the newest cards, one is of a peer.
LEMMA LastDated ==
  ASSUME NEW T, Dated(T)
  PROVE  /\ Dated(LastOfEach(T)) /\ LastOfEach(T) \subseteq T
         /\ \A c, d \in LastOfEach(T) : c.peer = d.peer => c = d
PROOF
<1>1. LastOfEach(T) \in SUBSET T
  BY DEF LastOfEach
<1>2. IsFiniteSet(LastOfEach(T))
  BY <1>1, FS_Subset DEF Dated
<1>3. Dated(LastOfEach(T))
  BY <1>1, <1>2 DEF Dated
<1>4. ASSUME NEW c \in LastOfEach(T), NEW d \in LastOfEach(T), c.peer = d.peer
      PROVE  c = d
  <2>1. c \in T /\ d \in T /\ d.at <= c.at /\ c.at <= d.at
    BY <1>4 DEF LastOfEach
  <2>2. c.at \in Nat /\ d.at \in Nat
    BY <2>1 DEF Dated, CardT
  <2>3. c.at = d.at
    BY <2>1, <2>2
  <2> QED BY <2>1, <2>3 DEF Dated
<1> QED BY <1>1, <1>3, <1>4

\* What a scan finds is short, and of the timeline.
LEMMA TrackedFacts ==
  ASSUME NEW S, NEW s \in Seq(S)
  PROVE  /\ Tracked(s) \in Seq(S) /\ Len(Tracked(s)) <= MaxTracked
         /\ Len(Tracked(s)) = IF Len(s) < MaxTracked THEN Len(s) ELSE MaxTracked
         /\ \A i \in 1..Len(Tracked(s)) : Tracked(s)[i] = s[i]
         /\ Len(s) <= MaxTracked => Tracked(s) = s
PROOF
<1> DEFINE k == IF Len(s) < MaxTracked THEN Len(s) ELSE MaxTracked
<1>1. Len(s) \in Nat /\ MaxTracked \in Nat
  BY PeerBookAssumption
<1>2. k \in 0..Len(s) /\ k \in Nat /\ k <= MaxTracked /\ (Len(s) <= MaxTracked => k = Len(s))
  BY <1>1
<1>3. Tracked(s) = SubSeq(s, 1, k)
  BY DEF Tracked
<1> HIDE DEF k
<1>4. /\ SubSeq(s, 1, k) \in Seq(S) /\ Len(SubSeq(s, 1, k)) = k
      /\ \A i \in 1..k : SubSeq(s, 1, k)[i] = s[i]
  BY <1>1, <1>2
<1>5. k = Len(s) => SubSeq(s, 1, k) = s
  BY <1>4
<1> QED BY <1>1, <1>2, <1>3, <1>4, <1>5 DEF k

\* The places in a list of the cards of other peers.
OtherPlaces(s, p) == {i \in DOMAIN s : s[i].peer # p}

LEMMA UpsertPicked ==
  ASSUME NEW s, NEW c
  PROVE  upsert(s, c) = Tracked(<<c>> \o Picked(s, OtherPlaces(s, c.peer)))
PROOF
  BY DEF upsert, Where, OtherPlaces

LEMMA FrontElement ==
  ASSUME NEW S, NEW e \in S, NEW w \in Seq(S)
  PROVE  /\ <<e>> \o w \in Seq(S) /\ Len(<<e>> \o w) = 1 + Len(w)
         /\ (<<e>> \o w)[1] = e
         /\ \A i \in 1..Len(w) : (<<e>> \o w)[i + 1] = w[i]
PROOF
<1> DEFINE u == <<e>> \o w
<1>1. <<e>> \in Seq(S) /\ Len(<<e>>) = 1 /\ <<e>>[1] = e /\ Len(w) \in Nat
  OBVIOUS
<1>2. /\ u \in Seq(S) /\ Len(u) = Len(<<e>>) + Len(w)
      /\ \A i \in 1..Len(<<e>>) + Len(w) : u[i] = IF i <= Len(<<e>>) THEN <<e>>[i] ELSE w[i - Len(<<e>>)]
  BY <1>1, ConcatProperties
<1> HIDE DEF u
<1>3. 1 \in 1..1+Len(w) /\ 1 <= 1
  BY <1>1
<1>4. \A i \in 1..Len(w) : i + 1 \in 1..1+Len(w) /\ ~(i + 1 <= 1) /\ (i + 1) - 1 = i
  BY <1>1
<1>5. u \in Seq(S) /\ Len(u) = 1 + Len(w) /\ u[1] = e /\ \A i \in 1..Len(w) : u[i + 1] = w[i]
  BY <1>1, <1>2, <1>3, <1>4
<1> QED BY <1>5 DEF u

LEMMA ScanType ==
  ASSUME NEW T, Dated(T)
  PROVE  initialScan(T) \in Seq(CardT) /\ Len(initialScan(T)) <= MaxTracked
PROOF
<1>1. Dated(LastOfEach(T)) /\ LastOfEach(T) \subseteq CardT
  BY LastDated DEF Dated
<1>2. Sorted(LastOfEach(T)) \in Seq(LastOfEach(T))
  BY <1>1, SortedFacts
<1>3. Sorted(LastOfEach(T)) \in Seq(CardT)
  BY <1>1, <1>2
<1> QED BY <1>3, TrackedFacts DEF initialScan

LEMMA UpsertType ==
  ASSUME NEW s \in Seq(CardT), NEW c \in CardT
  PROVE  upsert(s, c) \in Seq(CardT) /\ Len(upsert(s, c)) <= MaxTracked
PROOF
<1>1. OtherPlaces(s, c.peer) \subseteq DOMAIN s
  BY DEF OtherPlaces
<1>2. Picked(s, OtherPlaces(s, c.peer)) \in Seq(CardT)
  BY <1>1, PickedFacts
<1>3. <<c>> \o Picked(s, OtherPlaces(s, c.peer)) \in Seq(CardT)
  BY <1>2, FrontElement
<1> QED BY <1>3, TrackedFacts, UpsertPicked

\* No two cards have one time, and the list is one of cards.
PostedOK == Dated(pTimeline) /\ pCards \in Seq(CardT) /\ Len(pCards) <= MaxTracked

\* What a step does to the cards.
CardsStep ==
  \/ UNCHANGED <<pTab, pTimeline, pCards>>
  \/ UNCHANGED pTimeline /\ pTab' = "closed" /\ pCards' = <<>>
  \/ \E tab \in {"camera", "image", "paste", "rooms"} : showTab(tab)
  \/ \E p \in PeerId, a \in Addr, at \in 1..MaxPairing : CardSeen(p, a, at)

LEMMA SeenStep ==
  ASSUME PostedOK, NEW p \in PeerId, NEW a \in Addr, NEW at \in 1..MaxPairing, CardSeen(p, a, at)
  PROVE  PostedOK'
PROOF
<1>1. IsFiniteSet(pTimeline) /\ at \in Nat /\ Dated(pTimeline)
  BY PeerBookAssumption DEF PostedOK, Dated
<1>2. PICK c \in CardT : c = [peer |-> p, addr |-> a, at |-> at]
  BY <1>1 DEF CardT
<1>3. /\ pTimeline' = pTimeline \cup {c} /\ \A d \in pTimeline : d.at # c.at
      /\ pCards' = IF pTab = "rooms" THEN upsert(pCards, c) ELSE pCards
  BY <1>2 DEF CardSeen
<1>4. IsFiniteSet(pTimeline \cup {c})
  BY <1>1, FS_AddElement
<1>5. Dated(pTimeline \cup {c})
  <2>1. pTimeline \cup {c} \subseteq CardT
    BY <1>1 DEF Dated
  <2>2. \A d, e \in pTimeline \cup {c} : d.at = e.at => d = e
    BY <1>1, <1>3 DEF Dated
  <2> QED BY <1>4, <2>1, <2>2 DEF Dated
<1>6. upsert(pCards, c) \in Seq(CardT) /\ Len(upsert(pCards, c)) <= MaxTracked
  BY UpsertType DEF PostedOK
<1>7. pCards' \in Seq(CardT) /\ Len(pCards') <= MaxTracked
  BY <1>3, <1>6 DEF PostedOK
<1> QED BY <1>3, <1>5, <1>7 DEF PostedOK

LEMMA CardsInvStep ==
  ASSUME PostedOK, CardsStep
  PROVE  PostedOK'
PROOF
<1>0. <<>> \in Seq(CardT) /\ Len(<<>>) <= MaxTracked
  BY PeerBookAssumption
<1>1. CASE UNCHANGED <<pTab, pTimeline, pCards>>
  BY <1>1 DEF PostedOK
<1>2. CASE UNCHANGED pTimeline /\ pTab' = "closed" /\ pCards' = <<>>
  BY <1>0, <1>2 DEF PostedOK
<1>3. ASSUME NEW tab \in {"camera", "image", "paste", "rooms"}, showTab(tab)
      PROVE  PostedOK'
  <2>1. UNCHANGED pTimeline /\ pCards' = IF tab = "rooms" THEN initialScan(pTimeline) ELSE <<>>
    BY <1>3 DEF showTab
  <2>2. initialScan(pTimeline) \in Seq(CardT) /\ Len(initialScan(pTimeline)) <= MaxTracked
    BY ScanType DEF PostedOK
  <2> QED BY <1>0, <2>1, <2>2 DEF PostedOK
<1> QED BY <1>1, <1>2, <1>3, SeenStep DEF CardsStep

\* What the scanner shows is one of its tabs; the effects are counted with the
\* calls and the cards, within the bound.
ScannerOK ==
  /\ pTab \in {"closed", "camera", "image", "paste", "rooms"}
  /\ pListening \in {"no", "attaching", "yes"}
  /\ pEffects \in 0..MaxPairing

\* A step of the scanner and of its listeners.
ScannerStep ==
  /\ pTab' \in {pTab, "closed", "camera", "image", "paste", "rooms"}
  /\ pListening' \in {pListening, "no", "attaching", "yes"}
  /\ UNCHANGED pEffects \/ (Within /\ pEffects' = pEffects + 1)

LEMMA ScannerInvStep ==
  ASSUME ScannerOK, ScannerStep, pSent \in Nat, PostedOK
  PROVE  ScannerOK'
PROOF
<1>1. Cardinality(pTimeline) \in Nat
  BY FS_CardinalityType DEF PostedOK, Dated
<1>2. pEffects \in Nat /\ pEffects <= MaxPairing /\ MaxPairing \in Nat
  BY PeerBookAssumption DEF ScannerOK
<1>3. pEffects' \in 0..MaxPairing
  <2>1. CASE UNCHANGED pEffects
    BY <1>2, <2>1
  <2>2. CASE Within /\ pEffects' = pEffects + 1
    BY <1>1, <1>2, <2>2 DEF Within
  <2> QED BY <2>1, <2>2 DEF ScannerStep
<1>4. pTab' \in {"closed", "camera", "image", "paste", "rooms"}
  BY DEF ScannerOK, ScannerStep
<1>5. pListening' \in {"no", "attaching", "yes"}
  BY DEF ScannerOK, ScannerStep
<1> QED BY <1>3, <1>4, <1>5 DEF ScannerOK

\* A card is added, from wherever it comes.
LEMMA AddIsCardsStep ==
  ASSUME NEW p, NEW a, NEW ok, handleAdd(p, a, ok), UNCHANGED <<pTimeline, pEffects>>
  PROVE  CardsStep /\ ScannerStep
PROOF
<1>1. Unmount \/ UNCHANGED <<pTab, pCameras, pCards>>
  BY DEF handleAdd
<1>2. pListening' \in {pListening, "no", "attaching", "yes"}
  BY DEF handleAdd, WebCall, NativeCall, Sends
<1> QED BY <1>1, <1>2 DEF Unmount, CardsStep, ScannerStep

LEMMA CardsSteps ==
  ASSUME [PeerNext]_peerVars
  PROVE  CardsStep /\ ScannerStep
PROOF
<1> DEFINE Goal == CardsStep /\ ScannerStep
<1>s. ASSUME UNCHANGED <<pTab, pTimeline, pCards, pListening, pEffects>>
      PROVE  Goal
  BY <1>s DEF CardsStep, ScannerStep
<1>l. ASSUME Stands, pListening' \in {pListening, "no", "attaching", "yes"}
      PROVE  Goal
  BY <1>l DEF Stands, cardVars, cameraVars, CardsStep, ScannerStep
<1>e. ASSUME UNCHANGED <<pTab, pTimeline, pCards, pListening>>,
             UNCHANGED pEffects \/ (Within /\ pEffects' = pEffects + 1)
      PROVE  Goal
  BY <1>e DEF CardsStep, ScannerStep
<1> HIDE DEF Goal
<1>1. ASSUME NEW p \in PeerId, NEW op \in {"load", "revoke", "grant", "remove"}, NEW ok \in BOOLEAN,
             Asks(op, p, ok)
      PROVE  Goal
  <2>1. \E a \in Addr : WebCall(op, p, a, ok) \/ NativeCall(op, p, a, FALSE)
    BY <1>1 DEF Asks
  <2>2. pListening' \in {pListening, "no", "attaching", "yes"}
    BY <2>1 DEF WebCall, NativeCall, Sends
  <2>3. Stands
    BY <1>1 DEF Asks, Stands
  <2> QED BY <1>l, <2>2, <2>3
<1>2. ASSUME NEW c \in pCalls, load(c)
      PROVE  Goal
  <2>1. UNCHANGED <<pListening, pEffects, pTimeline>> /\ (Unmount \/ UNCHANGED <<pTab, pCameras, pCards>>)
    BY <1>2 DEF load
  <2>2. CASE Unmount
    BY <2>1, <2>2 DEF Unmount, Goal, CardsStep, ScannerStep
  <2> QED BY <1>s, <2>1, <2>2
<1>3. ASSUME NEW c \in pCalls, addFromCard(c) \/ revokeAccess(c) \/ \E ok \in BOOLEAN : Served(c, ok)
      PROVE  Goal
  <2>1. Stands
    BY <1>3, Zenon DEF addFromCard, revokeAccess, Served
  <2>2. pListening' \in {pListening, "no", "attaching", "yes"}
    BY <1>3 DEF addFromCard, revokeAccess, Served
  <2> QED BY <1>l, <2>1, <2>2
<1>4. ASSUME (\E ok \in BOOLEAN : ensureEventSubscription(ok)) \/ peerPaired
      PROVE  Goal
  <2>1. Stands
    BY <1>4 DEF ensureEventSubscription, peerPaired
  <2>2. pListening' \in {pListening, "no", "attaching", "yes"}
    BY <1>4 DEF ensureEventSubscription, peerPaired, Sends
  <2> QED BY <1>l, <2>1, <2>2
<1>5. ASSUME closeScanner
      PROVE  Goal
  BY <1>5 DEF closeScanner, Unmount, diskVars, Goal, CardsStep, ScannerStep
<1>6. ASSUME Rerender
      PROVE  Goal
  BY <1>6, <1>e DEF Rerender, diskVars, cardVars
<1>7. ASSUME NEW tab \in {"camera", "image", "paste", "rooms"}, showTab(tab)
      PROVE  Goal
  <2>1. CardsStep
    BY <1>7 DEF CardsStep
  <2>2. ScannerStep
    BY <1>7 DEF showTab, diskVars, ScannerStep
  <2> QED BY <2>1, <2>2 DEF Goal
<1>8. ASSUME NEW c \in pCameras, StreamGiven(c) \/ \E new \in BOOLEAN : StreamRefused(c, new)
      PROVE  Goal
  BY <1>8, <1>e DEF StreamGiven, StreamRefused, diskVars, cardVars
<1>9. ASSUME NEW p \in PeerId, NEW a \in Addr, DeeplinkPairs(p, a)
      PROVE  Goal
  BY <1>9, <1>l DEF DeeplinkPairs
<1>10. ASSUME NEW p \in PeerId, NEW a \in Addr, NEW n, handleFile(p, a, n)
       PROVE  Goal
  BY <1>10, <1>s DEF handleFile, diskVars, cameraVars, cardVars
<1>11. ASSUME NEW p \in PeerId, NEW a \in Addr, NEW at \in 1..MaxPairing, CardSeen(p, a, at)
       PROVE  Goal
  <2>1. CardsStep
    BY <1>11 DEF CardsStep
  <2>2. UNCHANGED <<pTab, pListening, pEffects>>
    BY <1>11 DEF CardSeen, diskVars, cameraVars
  <2> QED BY <2>1, <2>2 DEF Goal, ScannerStep
<1>12. ASSUME NEW p \in PeerId, NEW a \in Addr, NEW ok \in BOOLEAN,
              handlePasteSubmit(p, a, ok) \/ onPick(p, a, ok)
       PROVE  Goal
  <2>1. handleAdd(p, a, ok) /\ UNCHANGED <<pTimeline, pEffects>>
    BY <1>12 DEF handlePasteSubmit, onPick, Keeps
  <2> QED BY <2>1, AddIsCardsStep DEF Goal
<1>13. ASSUME NEW p \in PeerId, NEW a \in Addr, NEW ok \in BOOLEAN, NEW c \in pCameras,
              CameraDecodes(c, p, a, ok)
       PROVE  Goal
  <2>1. UNCHANGED <<pTimeline, pEffects>> /\ (Unmount \/ UNCHANGED <<pTab, pCards>>)
    BY <1>13 DEF CameraDecodes, Keeps
  <2>2. pListening' \in {pListening, "no", "attaching", "yes"}
    BY <1>13 DEF CameraDecodes, WebCall, NativeCall, Sends
  <2> QED BY <2>1, <2>2 DEF Unmount, Goal, CardsStep, ScannerStep
<1>14. ASSUME NEW r \in pReading, NEW card \in BOOLEAN, NEW ok \in BOOLEAN, ImageDecoded(r, card, ok)
       PROVE  Goal
  <2>1. UNCHANGED <<pTimeline, pEffects>>
    BY <1>14 DEF ImageDecoded, Keeps
  <2>2. handleAdd(r.peer, r.addr, ok) \/ UNCHANGED <<pTab, pCards, pListening>>
    BY <1>14 DEF ImageDecoded, diskVars
  <2> QED BY <1>s, <2>1, <2>2, AddIsCardsStep DEF Goal
<1>15. ASSUME UNCHANGED peerVars
       PROVE  Goal
  BY <1>15, <1>s DEF peerVars, diskVars, cameraVars, cardVars
<1>16. Goal
  BY <1>1, <1>2, <1>3, <1>4, <1>5, <1>6, <1>7, <1>8, <1>9, <1>10, <1>11, <1>12, <1>13, <1>14, <1>15
  DEF PeerNext
<1> QED BY <1>16 DEF Goal

\* No card is posted at first.
LEMMA CardsInit == PeerInit => PostedOK /\ ScannerOK
PROOF
<1> SUFFICES ASSUME PeerInit
             PROVE  PostedOK /\ ScannerOK
  OBVIOUS
<1>1. /\ pTab = "closed" /\ pListening = "no" /\ pEffects = 0
      /\ pTimeline = {} /\ pCards = <<>>
  BY DEF PeerInit
<1>2. Dated(pTimeline)
  BY <1>1, FS_EmptySet DEF Dated
<1>3. pCards \in Seq(CardT) /\ Len(pCards) = 0
  BY <1>1
<1>4. MaxTracked \in Nat /\ MaxPairing \in Nat
  BY PeerBookAssumption
<1>5. PostedOK
  BY <1>1, <1>2, <1>3, <1>4 DEF PostedOK
<1> QED BY <1>1, <1>4, <1>5 DEF ScannerOK

\* The inductive invariant of the paired peers, of any number of peers, addresses
\* and cards.
PeerIInv == BookInv /\ ReadingOK /\ CamerasOK /\ PostedOK /\ ScannerOK

LEMMA PeerInvInit == PeerInit => PeerIInv
PROOF
<1>1. PeerInit => CamerasOK
  BY DEF PeerInit, CamerasOK
<1> QED BY <1>1, BookInvInit, CardsInit DEF PeerIInv

LEMMA PeerInvStep == PeerIInv /\ [PeerNext]_peerVars => PeerIInv'
PROOF
<1> SUFFICES ASSUME PeerIInv, [PeerNext]_peerVars
             PROVE  PeerIInv'
  OBVIOUS
<1>1. BookInv' /\ ReadingOK'
  BY PeerSteps, BookInvStep DEF PeerIInv
<1>2. CamerasOK'
  BY CameraSteps, CameraInvStep DEF PeerIInv
<1>3. PostedOK'
  BY CardsSteps, CardsInvStep DEF PeerIInv
<1>4. pSent \in Nat
  BY DEF PeerIInv, BookInv, CallsOK
<1>5. ScannerOK'
  BY <1>4, CardsSteps, ScannerInvStep DEF PeerIInv
<1> QED BY <1>1, <1>2, <1>3, <1>5 DEF PeerIInv

LEMMA PeerTyped == PeerIInv => PeerTypeOK
PROOF
<1> SUFFICES ASSUME PeerIInv
             PROVE  PeerTypeOK
  OBVIOUS
<1>1. pDisk \in [PeerId -> Row] /\ pKnown \in [PeerId -> Row]
  BY DEF PeerIInv, BookInv, BookOK
<1>2. \A rows \in {pDisk, pKnown} : \A p \in PeerId :
        rows[p].addrs \subseteq Addr /\ rows[p].granted \in {"yes", "no", "unset"}
  BY <1>1 DEF Row
<1>3. \A p \in PeerId : pDisk[p].addrs = {} => pDisk[p] = Unpaired
  BY DEF PeerIInv, BookInv, BookOK
<1>4. pRevoked \subseteq PeerId /\ Len(pCards) <= MaxTracked
  BY DEF PeerIInv, BookInv, RevokedOK, PostedOK
<1> QED BY <1>2, <1>3, <1>4 DEF PeerIInv, ScannerOK, PeerTypeOK

LEMMA PeerInvAlways == PeerSpec => []PeerIInv
PROOF
<1> QED BY PeerInvInit, PeerInvStep, PTL DEF PeerSpec

\* The book, the calls and the scanner are well formed, and no more cards are
\* listed than the hook tracks.
THEOREM PeerTypes == PeerSpec => []PeerTypeOK
PROOF
<1> QED BY PeerInvAlways, PeerTyped, PTL

-----------------------------------------------------------------------------
(***************************************************************************)
(* The extension sessions of a room.                                       *)
(***************************************************************************)

SessionEvent ==
  [key : 0..MaxSends, app : App, host : Peer, at : Nat, active : BOOLEAN]

SessionTypes ==
  /\ xLog \in Seq(SessionEvent) /\ xSends \subseteq SessionEvent
  /\ xActive \in [Peer -> SessionEvent \cup {None}]
  /\ xSeen \in [Peer -> Nat] /\ (\A c \in Peer : xSeen[c] <= Len(xLog))
  /\ xWatch \in [Peer -> {"away", "watching", "deaf"}]
  /\ xCatalog \in [Peer -> SUBSET App] /\ xInstalled \subseteq App
  /\ xLoaded \subseteq Peer /\ xUnread \subseteq Peer
  /\ xCount \in 0..MaxSends

\* A client listens to a room only when its SDK knows the room.
ListenersKnow == \A c \in Peer : xWatch[c] = "watching" => c \in xKnows

\* An up-to-date client shows what the log says.  One that started or stopped
\* a session is ahead of the log, but then a call is under way, or was lost,
\* or its event is yet to be synced.
Reading(c) == readState(xCatalog[c], SubSeq(xLog, 1, xSeen[c]))
ShowsTheLog == AllSent => \A c \in Peer : UpToDate(c) => xActive[c] \in Reading(c)

SessionsIInv == SessionTypes /\ ListenersKnow /\ ShowsTheLog

\* The empty log has no session.
LEMMA SessionsInvInit == SessionsInit => SessionsIInv
  <1> SUFFICES ASSUME SessionsInit
               PROVE  SessionsIInv
    OBVIOUS
  <1>1. SessionTypes
    BY SessionsAssumption DEF SessionsInit, SessionTypes
  <1>2. ListenersKnow
    BY DEF SessionsInit, ListenersKnow
  <1>3. ASSUME NEW c \in Peer
        PROVE  xActive[c] \in Reading(c)
    <2>1. xActive[c] = None /\ xLog = <<>> /\ xSeen[c] = 0
      BY DEF SessionsInit
    <2>2. StateOf(SubSeq(xLog, 1, xSeen[c])) = {}
      BY <2>1 DEF StateOf
    <2> QED
      BY <2>1, <2>2 DEF Reading, readState
  <1> QED
    BY <1>1, <1>2, <1>3 DEF SessionsIInv, ShowsTheLog

\* What a reading gives is an event of the log, or nothing.
LEMMA ReadingType ==
  ASSUME NEW log \in Seq(SessionEvent), NEW n \in 0..Len(log), NEW catalog,
         NEW e \in readState(catalog, SubSeq(log, 1, n))
  PROVE  e \in SessionEvent \cup {None}
  <1>1. SubSeq(log, 1, n) \in Seq(SessionEvent)
    BY SubSeqProperties
  <1>2. StateOf(SubSeq(log, 1, n)) \subseteq SessionEvent
    BY <1>1 DEF StateOf
  <1> QED
    BY <1>2 DEF readState

\* A client that reads shows what it has synced.
LEMMA ReadsShow ==
  ASSUME SessionTypes, NEW c \in Peer, Reads(c), xLog' = xLog, xCatalog' = xCatalog,
         xSeen' \in [Peer -> Nat], xSeen'[c] <= Len(xLog)
  PROVE  /\ xActive' \in [Peer -> SessionEvent \cup {None}]
         /\ xActive'[c] \in Reading(c)'
         /\ \A d \in Peer \ {c} : xActive'[d] = xActive[d] /\ (d \in xUnread' <=> d \in xUnread)
         /\ xUnread' \subseteq Peer
  <1>1. PICK e \in readState(xCatalog[c], SubSeq(xLog, 1, xSeen'[c])) :
          xActive' = [xActive EXCEPT ![c] = e]
    BY DEF Reads
  <1>2. xLog \in Seq(SessionEvent) /\ xSeen'[c] \in 0..Len(xLog)
    BY DEF SessionTypes
  <1>3. e \in SessionEvent \cup {None}
    BY <1>1, <1>2, ReadingType
  <1>4. xActive'[c] = e
    BY <1>1 DEF SessionTypes
  <1>5. xActive'[c] \in Reading(c)'
    BY <1>1, <1>4 DEF Reading
  <1> QED
    BY <1>1, <1>3, <1>5 DEF SessionTypes, Reads

\* The log grows at its end, so that what is behind it stays behind.
LEMMA LogGrows ==
  ASSUME SessionTypes, NEW e \in SessionEvent, xLog' = Append(xLog, e)
  PROVE  /\ xLog' \in Seq(SessionEvent) /\ Len(xLog') = Len(xLog) + 1
         /\ \A c \in Peer : xSeen[c] \in Nat /\ xSeen[c] <= Len(xLog) /\ xSeen[c] # Len(xLog')
  BY DEF SessionTypes

LEMMA SessionTypesStep ==
  ASSUME SessionTypes, [SessionsNext]_sessionsVars
  PROVE  SessionTypes'
  <1> USE SessionsAssumption
  <1>1. ASSUME NEW c \in Peer, openRoomOfSessions(c)
        PROVE  SessionTypes'
    <2>1. CASE c \in xKnows
      <3>1. Reads(c) /\ xLog' = xLog /\ xCatalog' = xCatalog /\ xSeen' = xSeen
        BY <1>1, <2>1 DEF openRoomOfSessions, room, catalogs
      <3>2. xActive' \in [Peer -> SessionEvent \cup {None}] /\ xUnread' \subseteq Peer
        BY <3>1, ReadsShow DEF SessionTypes
      <3> QED
        BY <1>1, <3>2 DEF openRoomOfSessions, room, catalogs, SessionTypes
    <2>2. CASE c \notin xKnows
      BY <1>1, <2>2 DEF openRoomOfSessions, room, catalogs, SessionTypes
    <2> QED
      BY <2>1, <2>2
  <1>2. ASSUME NEW c \in Peer, leaveRoomOfSessions(c)
        PROVE  SessionTypes'
    BY <1>2 DEF leaveRoomOfSessions, room, catalogs, bounds, SessionTypes
  <1>3. ASSUME NEW c \in Peer, onStateEvent(c)
        PROVE  SessionTypes'
    <2>1. /\ xSeen' \in [Peer -> Nat] /\ \A d \in Peer : xSeen'[d] <= Len(xLog)
          /\ xLog' = xLog
      BY <1>3 DEF onStateEvent, SessionTypes
    <2>2. xActive' \in [Peer -> SessionEvent \cup {None}] /\ xUnread' \subseteq Peer
      <3>1. CASE xWatch[c] = "watching"
        <4>1. Reads(c) /\ xCatalog' = xCatalog
          BY <1>3, <3>1 DEF onStateEvent, catalogs
        <4> QED
          BY <2>1, <4>1, ReadsShow
      <3>2. CASE xWatch[c] # "watching"
        BY <1>3, <3>2 DEF onStateEvent, SessionTypes
      <3> QED
        BY <3>1, <3>2
    <2> QED
      BY <1>3, <2>1, <2>2 DEF onStateEvent, catalogs, bounds, SessionTypes
  <1>4. ASSUME NEW c \in Peer, RoomArrives(c)
        PROVE  SessionTypes'
    BY <1>4 DEF RoomArrives, catalogs, bounds, SessionTypes
  <1>5. ASSUME NEW c \in Peer, loadCatalog(c)
        PROVE  SessionTypes'
    BY <1>5 DEF loadCatalog, reloadCatalog, room, bounds, SessionTypes
  <1>6. ASSUME NEW c \in Peer, NEW at \in 1..MaxTime, stopExtension(c, at)
        PROVE  SessionTypes'
    <2>1. xActive[c] \in SessionEvent /\ at \in Nat
      BY <1>6 DEF stopExtension, SessionTypes
    <2> DEFINE ended == [xActive[c] EXCEPT !.active = FALSE, !.at = at]
    <2>2. ended \in SessionEvent
      BY <2>1 DEF SessionEvent
    <2>3. /\ xSends' = xSends \cup {ended} /\ xCount' = xCount + 1 /\ xCount < MaxSends
          /\ xActive' = [xActive EXCEPT ![c] = None]
          /\ UNCHANGED <<room, xWatch, catalogs, xUnread>>
      BY <1>6 DEF stopExtension, Sending
    <2> HIDE DEF ended
    <2> QED
      BY <2>2, <2>3 DEF room, catalogs, SessionTypes
  <1>7. ASSUME NEW c \in Peer, NEW at \in 1..MaxTime, NEW a \in App, startExtension(c, a, at)
        PROVE  SessionTypes'
    <2> DEFINE session == [key |-> xCount + 1, app |-> a, host |-> c, at |-> at, active |-> TRUE]
    <2>1. xCount < MaxSends /\ xCount \in 0..MaxSends /\ MaxSends \in Nat /\ at \in Nat
      BY <1>7 DEF startExtension, SessionTypes
    <2>2. session \in SessionEvent
      BY <2>1 DEF SessionEvent
    <2>3. /\ xSends' = xSends \cup {session} /\ xCount' = xCount + 1
          /\ xActive' = [xActive EXCEPT ![c] = session]
          /\ UNCHANGED <<room, xWatch, catalogs, xUnread>>
      BY <1>7 DEF startExtension, Sending, createSessionId
    <2> HIDE DEF session
    <2> QED
      BY <2>1, <2>2, <2>3 DEF room, catalogs, SessionTypes
  <1>8. ASSUME NEW c \in Peer, NEW a \in App, LegacyStart(c, a)
        PROVE  SessionTypes'
    <2> DEFINE e == [key |-> Legacy, app |-> a, host |-> c, at |-> 1, active |-> TRUE]
    <2>1. e \in SessionEvent
      BY DEF SessionEvent, Legacy
    <2>2. xLog' = Append(xLog, e)
      BY <1>8 DEF LegacyStart
    <2> HIDE DEF e
    <2>3. xLog' \in Seq(SessionEvent) /\ \A d \in Peer : xSeen[d] <= Len(xLog')
      BY <2>1, <2>2, LogGrows DEF SessionTypes
    <2> QED
      BY <1>8, <2>3 DEF LegacyStart, catalogs, SessionTypes
  <1>9. ASSUME NEW c \in Peer, NEW a \in App, handleInstall(c, a)
        PROVE  SessionTypes'
    BY <1>9 DEF handleInstall, room, SessionTypes
  <1>10. ASSUME NEW e \in xSends, SendArrives(e)
         PROVE  SessionTypes'
    <2>1. e \in SessionEvent /\ xLog' = Append(xLog, e)
      BY <1>10 DEF SendArrives, SessionTypes
    <2>2. xLog' \in Seq(SessionEvent) /\ \A d \in Peer : xSeen[d] <= Len(xLog')
      BY <2>1, LogGrows DEF SessionTypes
    <2> QED
      BY <1>10, <2>2 DEF SendArrives, catalogs, bounds, SessionTypes
  <1>11. ASSUME NEW e \in xSends, SendFails(e)
         PROVE  SessionTypes'
    BY <1>11 DEF SendFails, room, catalogs, bounds, SessionTypes
  <1>12. CASE UNCHANGED sessionsVars
    BY <1>12 DEF sessionsVars, SessionTypes
  <1> QED
    BY <1>1, <1>2, <1>3, <1>4, <1>5, <1>6, <1>7, <1>8, <1>9, <1>10, <1>11, <1>12
    DEF SessionsNext

LEMMA ListenersStep ==
  ASSUME SessionTypes, ListenersKnow, [SessionsNext]_sessionsVars
  PROVE  ListenersKnow'
  <1>1. ASSUME NEW c \in Peer, openRoomOfSessions(c)
        PROVE  ListenersKnow'
    BY <1>1 DEF openRoomOfSessions, room, ListenersKnow, SessionTypes
  <1>2. ASSUME NEW c \in Peer, leaveRoomOfSessions(c)
        PROVE  ListenersKnow'
    BY <1>2 DEF leaveRoomOfSessions, room, ListenersKnow, SessionTypes
  <1>3. ASSUME NEW c \in Peer, RoomArrives(c)
        PROVE  ListenersKnow'
    BY <1>3 DEF RoomArrives, ListenersKnow
  <1>4. ASSUME xWatch' = xWatch, xKnows' = xKnows
        PROVE  ListenersKnow'
    BY <1>4 DEF ListenersKnow
  <1>5. CASE UNCHANGED sessionsVars
    BY <1>4, <1>5 DEF sessionsVars
  <1>6. ASSUME NEW c \in Peer, onStateEvent(c) \/ loadCatalog(c)
        PROVE  ListenersKnow'
    BY <1>4, <1>6 DEF onStateEvent, loadCatalog, reloadCatalog, room
  <1>8. ASSUME NEW c \in Peer, NEW at,
               stopExtension(c, at) \/ \E a \in App : startExtension(c, a, at)
        PROVE  ListenersKnow'
    BY <1>4, <1>8 DEF stopExtension, startExtension, room
  <1>9. ASSUME NEW c \in Peer, NEW a \in App, LegacyStart(c, a) \/ handleInstall(c, a)
        PROVE  ListenersKnow'
    BY <1>4, <1>9 DEF LegacyStart, handleInstall, room
  <1>7. ASSUME NEW e \in xSends, SendArrives(e) \/ SendFails(e)
        PROVE  ListenersKnow'
    BY <1>4, <1>7 DEF SendArrives, SendFails, room
  <1> QED
    BY <1>1, <1>2, <1>3, <1>5, <1>6, <1>7, <1>8, <1>9 DEF SessionsNext

\* What a client shows stays right when neither it nor what it has read changes.
LEMMA StillShows ==
  ASSUME ShowsTheLog, AllSent' => AllSent, NEW c \in Peer,
         UpToDate(c)' => UpToDate(c), xActive'[c] = xActive[c], xCatalog'[c] = xCatalog[c],
         xLog' = xLog, xSeen'[c] = xSeen[c]
  PROVE  AllSent' /\ UpToDate(c)' => xActive'[c] \in Reading(c)'
  <1>1. Reading(c)' = Reading(c)
    BY DEF Reading
  <1> QED
    BY <1>1 DEF ShowsTheLog

\* No step leaves an up-to-date client showing something else than the log.
LEMMA ShowsTheLogStep ==
  ASSUME SessionsIInv, [SessionsNext]_sessionsVars, SessionTypes', ListenersKnow'
  PROVE  ShowsTheLog'
  <1> USE DEF SessionsIInv
  <1> SUFFICES ASSUME NEW d \in Peer, AllSent', UpToDate(d)'
               PROVE  xActive'[d] \in Reading(d)'
    BY DEF ShowsTheLog
  <1>0. xWatch'[d] = "watching" /\ xSeen'[d] = Len(xLog') /\ d \notin xUnread'
        /\ xSends' = {} /\ ~xLost'
    BY DEF UpToDate, AllSent
  <1>1. ASSUME NEW c \in Peer, openRoomOfSessions(c)
        PROVE  xActive'[d] \in Reading(d)'
    <2>1. /\ xLog' = xLog /\ xCatalog' = xCatalog /\ xSeen' = xSeen /\ xSends' = xSends
          /\ xLost' = xLost
      BY <1>1 DEF openRoomOfSessions, room, catalogs
    <2>2. CASE c \in xKnows
      <3>1. Reads(c)
        BY <1>1, <2>2 DEF openRoomOfSessions
      <3>2. /\ xActive'[c] \in Reading(c)'
            /\ \A e \in Peer \ {c} : xActive'[e] = xActive[e] /\ (e \in xUnread' <=> e \in xUnread)
        BY <2>1, <3>1, ReadsShow DEF SessionTypes
      <3>3. ASSUME d # c
            PROVE  xActive'[d] \in Reading(d)'
        <4>1. xWatch'[d] = xWatch[d]
          BY <1>1, <3>3 DEF openRoomOfSessions, SessionTypes
        <4>2. UpToDate(d) /\ AllSent
          BY <1>0, <2>1, <3>2, <3>3, <4>1 DEF UpToDate, AllSent
        <4> QED
          BY <2>1, <3>2, <3>3, <4>2, StillShows
      <3> QED
        BY <3>2, <3>3
    <2>3. CASE c \notin xKnows
      <3>1. d # c /\ xWatch'[d] = xWatch[d]
        BY <1>0, <1>1, <2>3 DEF openRoomOfSessions, SessionTypes
      <3>2. xActive' = xActive /\ xUnread' = xUnread
        BY <1>1, <2>3 DEF openRoomOfSessions
      <3>3. UpToDate(d) /\ AllSent
        BY <1>0, <2>1, <3>1, <3>2 DEF UpToDate, AllSent
      <3> QED
        BY <2>1, <3>2, <3>3, StillShows
    <2> QED
      BY <2>2, <2>3
  <1>2. ASSUME NEW c \in Peer, leaveRoomOfSessions(c)
        PROVE  xActive'[d] \in Reading(d)'
    <2>1. UNCHANGED <<xLog, xSeen, xActive, xCatalog, xSends, xLost, xUnread>>
      BY <1>2 DEF leaveRoomOfSessions, room, catalogs
    <2>2. xWatch[d] = "watching"
      BY <1>0, <1>2 DEF leaveRoomOfSessions, SessionTypes
    <2>3. UpToDate(d) /\ AllSent
      BY <1>0, <2>1, <2>2 DEF UpToDate, AllSent
    <2> QED
      BY <2>1, <2>3, StillShows
  <1>3. ASSUME NEW c \in Peer, onStateEvent(c)
        PROVE  xActive'[d] \in Reading(d)'
    <2>1. /\ xLog' = xLog /\ xCatalog' = xCatalog /\ xSends' = xSends /\ xLost' = xLost
          /\ xWatch' = xWatch /\ \A e \in Peer \ {c} : xSeen'[e] = xSeen[e]
          /\ xSeen' \in [Peer -> Nat] /\ xSeen'[c] <= Len(xLog)
      BY <1>3 DEF onStateEvent, catalogs, SessionTypes
    <2>2. CASE xWatch[c] = "watching"
      <3>1. Reads(c)
        BY <1>3, <2>2 DEF onStateEvent
      <3>2. /\ xActive'[c] \in Reading(c)'
            /\ \A e \in Peer \ {c} : xActive'[e] = xActive[e] /\ (e \in xUnread' <=> e \in xUnread)
        BY <2>1, <3>1, ReadsShow
      <3>3. ASSUME d # c
            PROVE  xActive'[d] \in Reading(d)'
        <4>1. UpToDate(d) /\ AllSent
          BY <1>0, <2>1, <3>2, <3>3 DEF UpToDate, AllSent
        <4> QED
          BY <2>1, <3>2, <3>3, <4>1, StillShows
      <3> QED
        BY <3>2, <3>3
    <2>3. CASE xWatch[c] # "watching"
      <3>1. d # c /\ xActive' = xActive /\ xUnread' = xUnread
        BY <1>0, <1>3, <2>1, <2>3 DEF onStateEvent
      <3>2. UpToDate(d) /\ AllSent
        BY <1>0, <2>1, <3>1 DEF UpToDate, AllSent
      <3> QED
        BY <2>1, <3>1, <3>2, StillShows
    <2> QED
      BY <2>2, <2>3
  <1>4. ASSUME NEW c \in Peer, RoomArrives(c)
        PROVE  xActive'[d] \in Reading(d)'
    <2>1. UNCHANGED <<xLog, xActive, xCatalog, xWatch, xSends, xLost, xUnread>>
      BY <1>4 DEF RoomArrives, catalogs
    <2>2. d # c
      BY <1>0, <1>4, <2>1 DEF RoomArrives, ListenersKnow
    <2>3. xSeen'[d] = xSeen[d]
      BY <1>4, <2>2 DEF RoomArrives, SessionTypes
    <2>4. UpToDate(d) /\ AllSent
      BY <1>0, <2>1, <2>3 DEF UpToDate, AllSent
    <2> QED
      BY <2>1, <2>3, <2>4, StillShows
  <1>5. ASSUME NEW c \in Peer, loadCatalog(c) \/ \E a \in App : handleInstall(c, a)
        PROVE  xActive'[d] \in Reading(d)'
    <2>1. /\ UNCHANGED <<xLog, xSeen, xActive, xWatch, xSends, xLost>>
          /\ xUnread' = xUnread \cup {c}
          /\ \E v : xCatalog' = [xCatalog EXCEPT ![c] = v]
      BY <1>5 DEF loadCatalog, reloadCatalog, handleInstall, room
    <2>2. d # c /\ xCatalog'[d] = xCatalog[d] /\ d \notin xUnread
      BY <1>0, <2>1 DEF SessionTypes
    <2>3. UpToDate(d) /\ AllSent
      BY <1>0, <2>1, <2>2 DEF UpToDate, AllSent
    <2> QED
      BY <2>1, <2>2, <2>3, StillShows
  <1>6. ASSUME NEW c \in Peer, NEW at \in 1..MaxTime,
               stopExtension(c, at) \/ \E a \in App : startExtension(c, a, at)
        PROVE  FALSE
    BY <1>0, <1>6 DEF stopExtension, startExtension, Sending
  <1>7. ASSUME NEW e \in SessionEvent, xLog' = Append(xLog, e), xSeen' = xSeen
        PROVE  FALSE
    BY <1>0, <1>7, LogGrows
  <1>8. ASSUME NEW c \in Peer, NEW a \in App, LegacyStart(c, a)
        PROVE  FALSE
    <2> DEFINE e == [key |-> Legacy, app |-> a, host |-> c, at |-> 1, active |-> TRUE]
    <2>1. e \in SessionEvent
      BY SessionsAssumption DEF SessionEvent, Legacy
    <2>2. xLog' = Append(xLog, e) /\ xSeen' = xSeen
      BY <1>8 DEF LegacyStart
    <2> HIDE DEF e
    <2> QED
      BY <1>7, <2>1, <2>2
  <1>9. ASSUME NEW e \in xSends, SendArrives(e)
        PROVE  FALSE
    BY <1>7, <1>9 DEF SendArrives, SessionTypes
  <1>10. ASSUME NEW e \in xSends, SendFails(e)
         PROVE  FALSE
    BY <1>0, <1>10 DEF SendFails
  <1>11. CASE UNCHANGED sessionsVars
    <2>1. UpToDate(d) /\ AllSent
      BY <1>0, <1>11 DEF sessionsVars, UpToDate, AllSent
    <2> QED
      BY <1>11, <2>1, StillShows DEF sessionsVars
  <1> QED
    BY <1>1, <1>2, <1>3, <1>4, <1>5, <1>6, <1>8, <1>9, <1>10, <1>11 DEF SessionsNext

\* Two readings of one state agree: of two newest sessions of different times
\* one is not the newest, and those of equal times are one, the log being
\* untied; the last event of a key is one.
LEMMA ReadingsAgree ==
  ASSUME NEW log \in Seq(SessionEvent), NEW catalog,
         \A e, f \in StateOf(log) : e.active /\ f.active /\ e.at = f.at => e.key = f.key,
         NEW e \in readState(catalog, log), NEW f \in readState(catalog, log)
  PROVE  e = f
  <1> DEFINE sessions == {s \in StateOf(log) : parseExtensionSessionContent(catalog, s)}
             legacy == {s \in StateOf(log) : parseLegacyExtensionContent(catalog, s)}
  <1>1. StateOf(log) \subseteq SessionEvent
    BY DEF StateOf
  <1>2. ASSUME NEW s \in StateOf(log), NEW t \in StateOf(log), s.key = t.key
        PROVE  s = t
    <2>1. PICK i \in DOMAIN log : s = log[i] /\ \A l \in DOMAIN log : l > i => log[l].key # log[i].key
      BY DEF StateOf
    <2>2. PICK j \in DOMAIN log : t = log[j] /\ \A l \in DOMAIN log : l > j => log[l].key # log[j].key
      BY DEF StateOf
    <2>3. i \in Int /\ j \in Int
      OBVIOUS
    <2>4. ~(i < j) /\ ~(j < i)
      BY <1>2, <2>1, <2>2, <2>3
    <2> QED
      BY <2>1, <2>2, <2>3, <2>4
  <1>3. CASE sessions # {}
    <2>1. /\ e \in sessions /\ f \in sessions /\ e.at <= f.at /\ f.at <= e.at
      BY <1>3 DEF readState
    <2>2. e \in SessionEvent /\ f \in SessionEvent /\ e.active /\ f.active
      BY <1>1, <2>1 DEF parseExtensionSessionContent
    <2>3. e.at = f.at
      BY <2>1, <2>2 DEF SessionEvent
    <2> QED
      BY <1>2, <2>1, <2>2, <2>3
  <1>4. CASE sessions = {} /\ legacy # {}
    <2>1. e \in legacy /\ f \in legacy
      BY <1>4 DEF readState
    <2> QED
      BY <1>2, <2>1 DEF parseLegacyExtensionContent
  <1>5. CASE sessions = {} /\ legacy = {}
    BY <1>5 DEF readState
  <1> QED
    BY <1>3, <1>4, <1>5

LEMMA SessionsInvStep == SessionsIInv /\ [SessionsNext]_sessionsVars => SessionsIInv'
  BY SessionTypesStep, ListenersStep, ShowsTheLogStep DEF SessionsIInv

LEMMA SessionsInvAlways == SessionsSpec => []SessionsIInv
  BY SessionsInvInit, SessionsInvStep, PTL DEF SessionsSpec

LEMMA SessionsTyped == SessionsIInv => SessionsTypeOK
PROOF
<1> SUFFICES ASSUME SessionsIInv PROVE SessionsTypeOK
  OBVIOUS
<1>1. SessionTypes
  BY DEF SessionsIInv
<1>2. xSeen \in [Peer -> 0..Len(xLog)]
  <2>1. Len(xLog) \in Nat /\ xSeen \in [Peer -> Nat] /\ \A c \in Peer : xSeen[c] <= Len(xLog)
    BY <1>1 DEF SessionTypes
  <2> QED BY <2>1
<1>3. ASSUME NEW c \in Peer, xActive[c] # None
      PROVE  xActive[c].key \in 0..MaxSends /\ xActive[c].app \in App /\ xActive[c].host \in Peer
  <2>1. xActive[c] \in SessionEvent
    BY <1>1, <1>3 DEF SessionTypes
  <2> QED BY <2>1 DEF SessionEvent
<1>4. {xLoaded, xUnread} \subseteq SUBSET Peer
  BY <1>1 DEF SessionTypes
<1> QED BY <1>1, <1>2, <1>3, <1>4 DEF SessionTypes, SessionsTypeOK

\* Every client has synced a part of the room's log, and what it shows running is an
\* app that one of the peers hosts (stores/extension.ts).
THEOREM SessionsTypes == SessionsSpec => []SessionsTypeOK
PROOF
<1> QED BY SessionsInvAlways, SessionsTyped, PTL

\* Once every call has arrived and been synced, two clients that watch the
\* room with one catalog show one session (stores/extension.ts readState,
\* hooks/useExtension.ts): the optimistic starts and stops leave no trace.
THEOREM ClientsShowOneSession == SessionsSpec => []SessionsAgree
  <1>1. SessionsIInv => SessionsAgree
    <2> SUFFICES ASSUME SessionsIInv, AllSent, Untied, NEW c \in Peer, NEW d \in Peer,
                        UpToDate(c), UpToDate(d), xCatalog[c] = xCatalog[d]
                 PROVE  xActive[c] = xActive[d]
      BY DEF SessionsAgree
    <2>1. xLog \in Seq(SessionEvent) /\ xSeen[c] = Len(xLog) /\ xSeen[d] = Len(xLog)
      BY DEF SessionsIInv, SessionTypes, UpToDate
    <2>2. SubSeq(xLog, 1, Len(xLog)) = xLog
      BY <2>1, SubSeqFull
    <2>3. /\ xActive[c] \in readState(xCatalog[c], xLog)
          /\ xActive[d] \in readState(xCatalog[c], xLog)
      BY <2>1, <2>2 DEF SessionsIInv, ShowsTheLog, Reading
    <2> QED
      BY <2>1, <2>3, ReadingsAgree DEF Untied
  <1> QED
    BY <1>1, SessionsInvAlways, PTL

-----------------------------------------------------------------------------
(***************************************************************************)
(* Servers, channels and the place in them.                                *)
(***************************************************************************)

ChanT == [room : NavRoom, name : {"welcome", "other"}, app : BOOLEAN]
Chans == Seq(ChanT)
SrvT == [id : SrvId, channels : Chans]
Place == SrvId \cup {Nowhere}

Ops == {"load", "joining", "join", "create server", "create channel", "launch", "delete channel", "stop",
        "rename", "reorder", "delete server", "leave"}
ChannelOps == {"create channel", "launch", "delete channel", "rename"}
AnyChan == [room : NavRoom \cup Place, name : {"welcome", "other"}, app : BOOLEAN]
CallT == [id : Nat, op : Ops, server : Place, channel : AnyChan, boot : BOOLEAN,
          prev : Seq(SrvT), stage : {"sent", "done", "failed"}, value : Seq(SrvT)]

\* A call names what it is about: a server, and a channel when it is about one; what a
\* load goes on to is a server, or nothing; a list to go by has the server.
CallTyped(c) ==
  /\ c \in CallT
  /\ c.op # "load" => c.server \in SrvId
  /\ c.op = "joining" => c.channel.room \in Place
  /\ c.op \in {"create server", "stop"} \cup ChannelOps => c.channel \in ChanT
  /\ c.op \in {"reorder", "stop"} => Listed(c.prev, c.server)

BackendTyped(b) ==
  DOMAIN b \subseteq SrvId /\ IsFiniteSet(DOMAIN b) /\ b \in [DOMAIN b -> Chans]

StoreTyped ==
  /\ nServers \in Seq(SrvT) /\ nActive \in Place /\ nChannel \in NavRoom \cup {Nowhere}
  /\ nDM \in BOOLEAN /\ nPorch \in BOOLEAN /\ nNative \in BOOLEAN /\ nIn \in BOOLEAN
  /\ nRestored \in BOOLEAN
  /\ nLoaded \in {"mounted", "loading", "settling", "loaded"}

\* The startup effect makes one call for each time the page was mounted.
CallsCounted ==
  /\ nReloads \in 0..MaxReloads /\ nSent \in Nat
  /\ nSent <= MaxCalls + nReloads + (IF nLoaded = "mounted" THEN 0 ELSE 1)

CallsTyped == BackendTyped(nBackend) /\ \A c \in nCalls : CallTyped(c)

NavTyped == StoreTyped /\ nStray \in BOOLEAN /\ CallsCounted /\ CallsTyped

\* What ChannelOfActiveServer says of a list and a place in it.
PlaceOK(servers, a, ch) == servers # <<>> /\ ch # Nowhere => InServer(servers, a, ch)

\* An answer that does not stray keeps the place in the list, whatever calls and clicks
\* came before it: nothing else is needed of the calls under way.
NavIInv == NavTyped /\ (~nStray => PlaceOK(nServers, nActive, nChannel)) /\ OneSurface

\* A list with the channels of one server changed by g.
MapBy(servers, s, g) ==
  [i \in 1..Len(servers) |->
     IF servers[i].id = s THEN [servers[i] EXCEPT !.channels = g[@]] ELSE servers[i]]
Appending(ch) == [chans \in Chans |-> Append(chans, ch)]
Dropping(r) == [chans \in Chans |-> Without(chans, r)]
Renaming(ch) == [chans \in Chans |-> Renamed(chans, ch)]
Reversing == [chans \in Chans |-> Reverse(chans)]

Others(servers, s) == Where(servers, LAMBDA x : x.id # s)
Moved(c, stage, value) == [c EXCEPT !.stage = stage, !.value = value]

-----------------------------------------------------------------------------
(***************************************************************************)
(* A list of servers: who is in it and what rooms its servers have.        *)
(***************************************************************************)

\* Each row of a list of servers, and what a place in the list is.
LEMMA ServerRows ==
  ASSUME NEW servers \in Seq(SrvT)
  PROVE  /\ Len(servers) \in Nat /\ DOMAIN servers = 1..Len(servers)
         /\ \A i \in 1..Len(servers) :
              servers[i] \in SrvT /\ servers[i].id \in SrvId /\ servers[i].channels \in Chans
         /\ servers = <<>> <=> Len(servers) = 0
PROOF
<1>1. Len(servers) \in Nat /\ DOMAIN servers = 1..Len(servers) /\ \A i \in 1..Len(servers) : servers[i] \in SrvT
  BY LenProperties, ElementOfSeq
<1>2. servers = <<>> <=> Len(servers) = 0
  BY EmptySeq
<1> QED
  BY <1>1, <1>2 DEF SrvT

\* The rooms of a server's channels.
LEMMA RoomFacts ==
  ASSUME NEW chans \in Chans
  PROVE  /\ RoomsOf(chans) \subseteq NavRoom
         /\ \A r : r \in RoomsOf(chans) <=> \E k \in 1..Len(chans) : chans[k].room = r
         /\ \A k \in 1..Len(chans) : chans[k] \in ChanT
PROOF
<1>1. chans \in Seq(ChanT)
  BY DEF Chans
<1>2. DOMAIN chans = 1..Len(chans) /\ \A k \in 1..Len(chans) : chans[k] \in ChanT
  BY <1>1, LenProperties, ElementOfSeq
<1>3. ToSet(chans) = {chans[k] : k \in 1..Len(chans)}
  BY <1>2 DEF ToSet
<1>4. \A r : r \in RoomsOf(chans) <=> \E k \in 1..Len(chans) : chans[k].room = r
  BY <1>3 DEF RoomsOf
<1> QED
  BY <1>2, <1>4 DEF ChanT

\* The row that stands for a server of the list is the first one with its id.
LEMMA ServerOfRow ==
  ASSUME NEW servers \in Seq(SrvT), NEW s, Listed(servers, s)
  PROVE  \E i \in 1..Len(servers) : /\ servers[i].id = s /\ ServerOf(servers, s) = servers[i]
                                    /\ \A j \in 1..Len(servers) : servers[j].id = s => i <= j
PROOF
<1> DEFINE P == {i \in 1..Len(servers) : servers[i].id = s}
           k == First(P)
<1>1. P # {} /\ P \subseteq Nat
  BY DEF Listed
<1>2. k \in P /\ \A j \in P : k <= j
  BY <1>1, FirstIsLeast
<1>3. ServerOf(servers, s) = servers[k]
  BY DEF ServerOf
<1> HIDE DEF k
<1> QED
  BY <1>2, <1>3

\* A row that comes before every other with its id stands for its server.
LEMMA FirstRowStands ==
  ASSUME NEW servers \in Seq(SrvT), NEW i \in 1..Len(servers),
         \A j \in 1..Len(servers) : servers[j].id = servers[i].id => i <= j
  PROVE  Listed(servers, servers[i].id) /\ ServerOf(servers, servers[i].id) = servers[i]
PROOF
<1>1. Listed(servers, servers[i].id)
  BY DEF Listed
<1>2. PICK k \in 1..Len(servers) :
        /\ servers[k].id = servers[i].id /\ ServerOf(servers, servers[i].id) = servers[k]
        /\ \A j \in 1..Len(servers) : servers[j].id = servers[i].id => k <= j
  BY <1>1, ServerOfRow
<1>3. k <= i /\ i <= k
  BY <1>2
<1>4. i = k
  BY <1>3
<1> QED
  BY <1>1, <1>2, <1>4

\* The first row of a list stands for its server.
LEMMA HeadStands ==
  ASSUME NEW servers \in Seq(SrvT), servers # <<>>
  PROVE  /\ 1 \in 1..Len(servers) /\ Listed(servers, servers[1].id)
         /\ ServerOf(servers, servers[1].id) = servers[1]
PROOF
<1>1. 1 \in 1..Len(servers)
  BY ServerRows
<1>2. \A j \in 1..Len(servers) : 1 <= j
  OBVIOUS
<1> QED
  BY <1>1, <1>2, FirstRowStands

\* The channels of a server of the list.
LEMMA ServerChannels ==
  ASSUME NEW servers \in Seq(SrvT), NEW s, Listed(servers, s)
  PROVE  s \in SrvId /\ ServerOf(servers, s).channels \in Chans
PROOF
<1>1. PICK i \in 1..Len(servers) : servers[i].id = s /\ ServerOf(servers, s) = servers[i]
  BY ServerOfRow
<1> QED
  BY <1>1, ServerRows

\* A room of a server of the list is a room, and the server is one.
LEMMA InServerTypes ==
  ASSUME NEW servers \in Seq(SrvT), NEW s, NEW r, InServer(servers, s, r)
  PROVE  s \in SrvId /\ r \in NavRoom
PROOF
<1>1. Listed(servers, s) /\ r \in RoomsOf(ServerOf(servers, s).channels)
  BY DEF InServer
<1> QED
  BY <1>1, ServerChannels, RoomFacts

\* The channel a server is opened at is one of its own, or none.
LEMMA OpenedAt ==
  ASSUME NEW chans \in Chans
  PROVE  /\ pickPreferredChannel(chans) \in RoomsOf(chans) \cup {Nowhere}
         /\ FirstRoom(chans) \in RoomsOf(chans) \cup {Nowhere}
PROOF
<1>1. chans \in Seq(ChanT) /\ DOMAIN chans = 1..Len(chans) /\ Len(chans) \in Nat
  BY LenProperties DEF Chans
<1>2. FirstRoom(chans) \in RoomsOf(chans) \cup {Nowhere}
  <2>1. CASE chans = <<>>
    BY <2>1 DEF FirstRoom
  <2>2. CASE chans # <<>>
    <3>1. 1 \in 1..Len(chans)
      BY <1>1, <2>2, EmptySeq
    <3>2. chans[1].room \in RoomsOf(chans)
      BY <3>1, RoomFacts
    <3> QED
      BY <2>2, <3>2 DEF FirstRoom
  <2> QED
    BY <2>1, <2>2
<1> DEFINE kept == {i \in DOMAIN chans : chans[i].name = "welcome"}
           named == Picked(chans, kept)
<1>3. pickPreferredChannel(chans) = IF named # <<>> THEN named[1].room ELSE FirstRoom(chans)
  BY DEF pickPreferredChannel, Where
<1>4. kept \subseteq DOMAIN chans
  OBVIOUS
<1> HIDE DEF kept
<1>5. /\ named \in Seq(ChanT)
      /\ \A n \in 1..Len(named) : Nth(kept, n) \in kept /\ named[n] = chans[Nth(kept, n)]
  BY <1>1, <1>4, PickedFacts
<1> HIDE DEF named
<1>6. CASE named = <<>>
  BY <1>2, <1>3, <1>6
<1>7. CASE named # <<>>
  <2>1. 1 \in 1..Len(named)
    BY <1>5, <1>7, EmptySeq
  <2>2. PICK k \in 1..Len(chans) : named[1] = chans[k]
    BY <1>1, <1>4, <1>5, <2>1
  <2>3. named[1].room \in RoomsOf(chans)
    BY <2>2, RoomFacts
  <2> QED
    BY <1>2, <1>3, <1>7, <2>3
<1> QED
  BY <1>2, <1>6, <1>7

-----------------------------------------------------------------------------
(***************************************************************************)
(* Changing the channels of one server of a list.                          *)
(***************************************************************************)

\* Only the channels of the rows of server s change.
LEMMA MapFacts ==
  ASSUME NEW servers \in Seq(SrvT), NEW s, NEW g \in [Chans -> Chans]
  PROVE  /\ MapBy(servers, s, g) \in Seq(SrvT)
         /\ Len(MapBy(servers, s, g)) = Len(servers)
         /\ \A i \in 1..Len(servers) :
              /\ MapBy(servers, s, g)[i].id = servers[i].id
              /\ servers[i].id = s => MapBy(servers, s, g)[i].channels = g[servers[i].channels]
              /\ servers[i].id # s => MapBy(servers, s, g)[i] = servers[i]
PROOF
<1> DEFINE t == MapBy(servers, s, g)
<1>1. Len(servers) \in Nat /\ \A i \in 1..Len(servers) : servers[i] \in SrvT
  BY ServerRows
<1>2. t = [i \in 1..Len(servers) |->
             IF servers[i].id = s THEN [servers[i] EXCEPT !.channels = g[@]] ELSE servers[i]]
  BY DEF MapBy
<1> HIDE DEF t
<1>3. ASSUME NEW i \in 1..Len(servers)
      PROVE  /\ t[i] \in SrvT /\ t[i].id = servers[i].id
             /\ servers[i].id = s => t[i].channels = g[servers[i].channels]
             /\ servers[i].id # s => t[i] = servers[i]
  <2>1. servers[i] \in SrvT
    BY <1>1
  <2>2. CASE servers[i].id = s
    <3>1. t[i] = [servers[i] EXCEPT !.channels = g[@]]
      BY <1>2, <2>2
    <3>2. servers[i].channels \in Chans /\ servers[i] \in [id : SrvId, channels : Chans]
      BY <2>1 DEF SrvT
    <3>3. g[servers[i].channels] \in Chans
      BY <3>2
    <3> QED
      BY <2>2, <3>1, <3>2, <3>3 DEF SrvT
  <2>3. CASE servers[i].id # s
    BY <1>2, <2>1, <2>3
  <2> QED
    BY <2>2, <2>3
<1>4. t \in [1..Len(servers) -> SrvT]
  BY <1>2, <1>3
<1>5. t \in Seq(SrvT) /\ Len(t) = Len(servers)
  BY <1>1, <1>4, SeqDef, LenProperties
<1> QED
  BY <1>3, <1>5 DEF t

\* The changes of a server's channels, and their lists.
LEMMA AppendingFacts ==
  ASSUME NEW ch \in ChanT
  PROVE  /\ Appending(ch) \in [Chans -> Chans]
         /\ \A chans \in Chans : /\ Appending(ch)[chans] = Append(chans, ch)
                                 /\ ch.room \in RoomsOf(Appending(ch)[chans])
                                 /\ RoomsOf(chans) \subseteq RoomsOf(Appending(ch)[chans])
PROOF
<1>1. ASSUME NEW chans \in Chans
      PROVE  /\ Append(chans, ch) \in Chans /\ Len(Append(chans, ch)) = Len(chans) + 1
             /\ \A k \in 1..Len(chans) : Append(chans, ch)[k] = chans[k]
             /\ Append(chans, ch)[Len(chans) + 1] = ch
             /\ Len(chans) \in Nat
  <2>1. chans \in Seq(ChanT)
    BY DEF Chans
  <2> QED
    BY <2>1, AppendProperties, LenProperties DEF Chans
<1>2. Appending(ch) \in [Chans -> Chans] /\ \A chans \in Chans : Appending(ch)[chans] = Append(chans, ch)
  BY <1>1 DEF Appending
<1>3. ASSUME NEW chans \in Chans
      PROVE  ch.room \in RoomsOf(Append(chans, ch)) /\ RoomsOf(chans) \subseteq RoomsOf(Append(chans, ch))
  <2> DEFINE t == Append(chans, ch)
  <2>1. /\ t \in Chans /\ Len(t) = Len(chans) + 1 /\ t[Len(chans) + 1] = ch
        /\ \A k \in 1..Len(chans) : t[k] = chans[k] /\ k \in 1..Len(chans) + 1
        /\ Len(chans) + 1 \in 1..Len(chans) + 1
    BY <1>1
  <2> HIDE DEF t
  <2>2. ch.room \in RoomsOf(t)
    BY <2>1, RoomFacts
  <2>3. ASSUME NEW r \in RoomsOf(chans) PROVE r \in RoomsOf(t)
    <3>1. PICK k \in 1..Len(chans) : chans[k].room = r
      BY <2>3, RoomFacts
    <3>2. k \in 1..Len(t) /\ t[k].room = r
      BY <2>1, <3>1
    <3> QED
      BY <2>1, <3>2, RoomFacts
  <2> QED
    BY <2>2, <2>3 DEF t
<1> QED
  BY <1>2, <1>3

LEMMA DroppingFacts ==
  ASSUME NEW r
  PROVE  /\ Dropping(r) \in [Chans -> Chans]
         /\ \A chans \in Chans : /\ Dropping(r)[chans] = Without(chans, r)
                                 /\ \A x \in RoomsOf(chans) : x # r => x \in RoomsOf(Dropping(r)[chans])
PROOF
<1>1. ASSUME NEW chans \in Chans
      PROVE  /\ Without(chans, r) \in Chans
             /\ \A x \in RoomsOf(chans) : x # r => x \in RoomsOf(Without(chans, r))
  <2> DEFINE kept == {i \in DOMAIN chans : chans[i].room # r}
             t == Picked(chans, kept)
  <2>1. chans \in Seq(ChanT) /\ DOMAIN chans = 1..Len(chans)
    BY LenProperties DEF Chans
  <2>2. kept \subseteq DOMAIN chans /\ \A i \in 1..Len(chans) : chans[i].room # r => i \in kept
    BY <2>1
  <2>3. Without(chans, r) = t
    BY DEF Without, Where
  <2> HIDE DEF kept, t
  <2>4. /\ t \in Seq(ChanT)
        /\ \A n \in 1..Len(t) : t[n] = chans[Nth(kept, n)]
        /\ \A i \in kept : \E n \in 1..Len(t) : Nth(kept, n) = i
    BY <2>1, <2>2, PickedFacts DEF t
  <2>5. t \in Chans
    BY <2>4 DEF Chans
  <2>6. ASSUME NEW x \in RoomsOf(chans), x # r PROVE x \in RoomsOf(t)
    <3>1. PICK i \in 1..Len(chans) : chans[i].room = x
      BY RoomFacts
    <3>2. i \in kept
      BY <2>2, <2>6, <3>1
    <3>3. PICK n \in 1..Len(t) : Nth(kept, n) = i
      BY <2>4, <3>2
    <3>4. t[n].room = x
      BY <2>4, <3>1, <3>3
    <3> QED
      BY <2>5, <3>4, RoomFacts
  <2> QED
    BY <2>3, <2>5, <2>6
<1> QED
  BY <1>1 DEF Dropping

LEMMA RenamingFacts ==
  ASSUME NEW ch \in ChanT
  PROVE  /\ Renaming(ch) \in [Chans -> Chans]
         /\ \A chans \in Chans : /\ Renaming(ch)[chans] = Renamed(chans, ch)
                                 /\ RoomsOf(chans) \subseteq RoomsOf(Renaming(ch)[chans])
PROOF
<1>1. ASSUME NEW chans \in Chans
      PROVE  Renamed(chans, ch) \in Chans /\ RoomsOf(chans) \subseteq RoomsOf(Renamed(chans, ch))
  <2>0. PICK t : t = Renamed(chans, ch)
    OBVIOUS
  <2>1. Len(chans) \in Nat /\ \A i \in 1..Len(chans) : chans[i] \in ChanT
    BY RoomFacts, LenProperties DEF Chans
  <2>2. t = [i \in 1..Len(chans) |->
               IF chans[i].room = ch.room THEN [chans[i] EXCEPT !.name = ch.name] ELSE chans[i]]
    BY <2>0 DEF Renamed
  <2>3. ASSUME NEW i \in 1..Len(chans) PROVE t[i] \in ChanT /\ t[i].room = chans[i].room
    <3>1. PICK x \in ChanT : x = chans[i]
      BY <2>1
    <3>2. [x EXCEPT !.name = ch.name] \in ChanT /\ [x EXCEPT !.name = ch.name].room = x.room
      BY DEF ChanT
    <3>3. t[i] = IF x.room = ch.room THEN [x EXCEPT !.name = ch.name] ELSE x
      BY <2>2, <3>1
    <3> QED
      BY <3>1, <3>2, <3>3
  <2>4. t \in [1..Len(chans) -> ChanT]
    BY <2>2, <2>3
  <2>5. t \in Seq(ChanT) /\ Len(t) = Len(chans)
    BY <2>1, <2>4, SeqDef, LenProperties
  <2>6. t \in Chans
    BY <2>5 DEF Chans
  <2>7. \A r : r \in RoomsOf(t) <=> \E k \in 1..Len(t) : t[k].room = r
    BY <2>6, RoomFacts
  <2>8. \A r : r \in RoomsOf(chans) <=> \E k \in 1..Len(chans) : chans[k].room = r
    BY RoomFacts
  <2> QED
    BY <2>0, <2>3, <2>5, <2>6, <2>7, <2>8
<1> QED
  BY <1>1 DEF Renaming

LEMMA ReversingFacts ==
  /\ Reversing \in [Chans -> Chans]
  /\ \A chans \in Chans : /\ Reversing[chans] = Reverse(chans)
                          /\ RoomsOf(Reversing[chans]) = RoomsOf(chans)
PROOF
<1>1. ASSUME NEW chans \in Chans
      PROVE  Reverse(chans) \in Chans /\ RoomsOf(Reverse(chans)) = RoomsOf(chans)
  <2> DEFINE t == Reverse(chans)
  <2>1. Len(chans) \in Nat /\ \A i \in 1..Len(chans) : chans[i] \in ChanT
    BY RoomFacts, LenProperties DEF Chans
  <2>2. t = [i \in 1..Len(chans) |-> chans[(Len(chans) - i) + 1]]
    BY DEF Reverse
  <2> HIDE DEF t
  <2>3. \A i \in 1..Len(chans) : (Len(chans) - i) + 1 \in 1..Len(chans) /\ t[i] = chans[(Len(chans) - i) + 1]
    BY <2>1, <2>2
  <2>4. t \in [1..Len(chans) -> ChanT]
    BY <2>1, <2>2, <2>3
  <2>5. t \in Seq(ChanT) /\ Len(t) = Len(chans)
    BY <2>1, <2>4, SeqDef, LenProperties
  <2>6. t \in Chans
    BY <2>5 DEF Chans
  <2>7. \A r : r \in RoomsOf(t) <=> \E k \in 1..Len(t) : t[k].room = r
    BY <2>6, RoomFacts
  <2>8. \A r : r \in RoomsOf(chans) <=> \E k \in 1..Len(chans) : chans[k].room = r
    BY RoomFacts
  <2>9. \A k \in 1..Len(chans) :
          (Len(chans) - k) + 1 \in 1..Len(chans) /\ t[(Len(chans) - k) + 1] = chans[k]
    <3> SUFFICES ASSUME NEW k \in 1..Len(chans)
                 PROVE (Len(chans) - k) + 1 \in 1..Len(chans) /\ t[(Len(chans) - k) + 1] = chans[k]
      OBVIOUS
    <3>1. PICK j \in 1..Len(chans) : j = (Len(chans) - k) + 1
      BY <2>1
    <3>2. (Len(chans) - j) + 1 = k
      BY <2>1, <3>1
    <3> QED
      BY <2>3, <3>1, <3>2
  <2>10. ASSUME NEW r PROVE r \in RoomsOf(t) <=> r \in RoomsOf(chans)
    <3>1. ASSUME r \in RoomsOf(t) PROVE r \in RoomsOf(chans)
      <4>1. PICK k \in 1..Len(t) : t[k].room = r
        BY <2>7, <3>1
      <4>2. PICK j \in 1..Len(chans) : t[k] = chans[j]
        BY <2>3, <2>5
      <4> QED
        BY <2>8, <4>1, <4>2
    <3>2. ASSUME r \in RoomsOf(chans) PROVE r \in RoomsOf(t)
      <4>1. PICK k \in 1..Len(chans) : chans[k].room = r
        BY <2>8, <3>2
      <4>2. PICK j \in 1..Len(chans) : t[j] = chans[k]
        BY <2>9
      <4> QED
        BY <2>5, <2>7, <4>1, <4>2
    <3> QED
      BY <3>1, <3>2
  <2> QED
    BY <2>6, <2>10 DEF t
<1> QED
  BY <1>1 DEF Reversing

\* The channels of a server put into the order that was sent.
LEMMA ArrangedFacts ==
  ASSUME NEW chans \in Chans, NEW order \in Chans, RoomsOf(order) = RoomsOf(chans)
  PROVE  Arranged(chans, order) \in Chans
PROOF
<1>0. PICK t : t = Arranged(chans, order)
  OBVIOUS
<1>1. t = [i \in 1..Len(order) |-> CHOOSE x \in ToSet(chans) : x.room = order[i].room]
  BY <1>0 DEF Arranged
<1>2. Len(order) \in Nat /\ DOMAIN chans = 1..Len(chans)
  BY LenProperties DEF Chans
<1>3. ASSUME NEW i \in 1..Len(order) PROVE t[i] \in ChanT
  <2>1. order[i].room \in RoomsOf(chans)
    BY RoomFacts
  <2>2. PICK k \in 1..Len(chans) : chans[k].room = order[i].room
    BY <2>1, RoomFacts
  <2>3. chans[k] \in ToSet(chans)
    BY <1>2, <2>2 DEF ToSet
  <2>4. t[i] \in ToSet(chans)
    BY <1>1, <2>2, <2>3
  <2>5. ToSet(chans) \subseteq ChanT
    BY <1>2, RoomFacts DEF ToSet
  <2> QED
    BY <2>4, <2>5
<1>4. t \in [1..Len(order) -> ChanT]
  BY <1>1, <1>3
<1>5. t \in Seq(ChanT)
  BY <1>2, <1>4, SeqDef
<1> QED
  BY <1>0, <1>5 DEF Chans

\* A change of a server's channels leaves every other server, and who is in the list.
LEMMA MapRooms ==
  ASSUME NEW servers \in Seq(SrvT), NEW s, NEW g \in [Chans -> Chans]
  PROVE  /\ MapBy(servers, s, g) = <<>> <=> servers = <<>>
         /\ \A a : Listed(MapBy(servers, s, g), a) <=> Listed(servers, a)
         /\ \A a : Listed(servers, a) /\ a # s =>
              ServerOf(MapBy(servers, s, g), a) = ServerOf(servers, a)
         /\ Listed(servers, s) =>
              ServerOf(MapBy(servers, s, g), s).channels = g[ServerOf(servers, s).channels]
PROOF
<1> DEFINE t == MapBy(servers, s, g)
<1>1. /\ t \in Seq(SrvT) /\ Len(t) = Len(servers)
      /\ \A i \in 1..Len(servers) :
           /\ t[i].id = servers[i].id
           /\ servers[i].id = s => t[i].channels = g[servers[i].channels]
           /\ servers[i].id # s => t[i] = servers[i]
  BY MapFacts
<1> HIDE DEF t
<1>2. t = <<>> <=> servers = <<>>
  BY <1>1, ServerRows
<1>3. \A a : Listed(t, a) <=> Listed(servers, a)
  BY <1>1 DEF Listed
<1>4. ASSUME NEW a, Listed(servers, a)
      PROVE  /\ a # s => ServerOf(t, a) = ServerOf(servers, a)
             /\ a = s => ServerOf(t, a).channels = g[ServerOf(servers, a).channels]
  <2>1. PICK i \in 1..Len(servers) : /\ servers[i].id = a /\ ServerOf(servers, a) = servers[i]
                                     /\ \A j \in 1..Len(servers) : servers[j].id = a => i <= j
    BY <1>4, ServerOfRow
  <2>2. i \in 1..Len(t) /\ t[i].id = a /\ \A j \in 1..Len(t) : t[j].id = t[i].id => i <= j
    BY <1>1, <2>1
  <2>3. ServerOf(t, t[i].id) = t[i]
    BY <1>1, <2>2, FirstRowStands
  <2> QED
    BY <1>1, <2>1, <2>2, <2>3
<1> QED
  BY <1>2, <1>3, <1>4 DEF t

\* A list without the rows of a server has every other as it was.
LEMMA RemovalFacts ==
  ASSUME NEW servers \in Seq(SrvT), NEW s, NEW t, t = Others(servers, s)
  PROVE  /\ t \in Seq(SrvT)
         /\ t # <<>> => servers # <<>>
         /\ \A a : Listed(servers, a) /\ a # s => Listed(t, a) /\ ServerOf(t, a) = ServerOf(servers, a)
PROOF
<1> DEFINE kept == {i \in DOMAIN servers : servers[i].id # s}
<1>1. t = Picked(servers, kept)
  BY DEF Where, Others
<1>2. kept \subseteq DOMAIN servers /\ DOMAIN servers = 1..Len(servers) /\ Len(servers) \in Nat
  BY ServerRows
<1>3. \A i \in 1..Len(servers) : i \in kept <=> servers[i].id # s
  BY <1>2
<1> HIDE DEF kept
<1>4. /\ Picked(servers, kept) \in Seq(SrvT)
      /\ \A n \in 1..Len(Picked(servers, kept)) :
           Nth(kept, n) \in kept /\ Picked(servers, kept)[n] = servers[Nth(kept, n)]
      /\ \A i \in kept : \E n \in 1..Len(Picked(servers, kept)) : Nth(kept, n) = i
      /\ \A m, n \in 1..Len(Picked(servers, kept)) : m < n => Nth(kept, m) < Nth(kept, n)
  BY <1>2, PickedFacts
<1>5. /\ t \in Seq(SrvT) /\ Len(t) \in Nat
      /\ \A n \in 1..Len(t) : Nth(kept, n) \in 1..Len(servers)
      /\ \A n \in 1..Len(t) : t[n] = servers[Nth(kept, n)]
      /\ \A i \in kept : \E n \in 1..Len(t) : Nth(kept, n) = i
      /\ \A m, n \in 1..Len(t) : m < n => Nth(kept, m) < Nth(kept, n)
  <2>1. t \in Seq(SrvT) /\ Len(t) \in Nat
    BY <1>1, <1>4, LenProperties
  <2> QED
    BY <1>1, <1>2, <1>4, <2>1
<1>6. ASSUME t # <<>> PROVE servers # <<>>
  <2>1. 1 \in 1..Len(t)
    BY <1>5, <1>6, EmptySeq
  <2>2. Nth(kept, 1) \in 1..Len(servers)
    BY <1>5, <2>1
  <2>3. Len(servers) # 0
    BY <1>2, <2>2
  <2> QED
    BY <2>3, ServerRows
<1>7. ASSUME NEW a, Listed(servers, a), a # s
      PROVE  Listed(t, a) /\ ServerOf(t, a) = ServerOf(servers, a)
  <2>1. PICK i \in 1..Len(servers) : /\ servers[i].id = a /\ ServerOf(servers, a) = servers[i]
                                     /\ \A j \in 1..Len(servers) : servers[j].id = a => i <= j
    BY <1>7, ServerOfRow
  <2>2. i \in kept
    BY <1>3, <1>7, <2>1
  <2>3. PICK n \in 1..Len(t) : Nth(kept, n) = i
    BY <1>5, <2>2
  <2>4. t[n] = servers[i]
    BY <1>5, <2>3
  <2>5. ASSUME NEW m \in 1..Len(t), t[m].id = t[n].id PROVE n <= m
    <3>1. PICK k \in 1..Len(servers) : k = Nth(kept, m) /\ t[m] = servers[k]
      BY <1>5
    <3>2. i <= k
      BY <2>1, <2>4, <2>5, <3>1
    <3>3. m < n => k < i
      BY <1>5, <2>3, <3>1
    <3> QED
      BY <1>2, <1>5, <3>2, <3>3
  <2>6. Listed(t, t[n].id) /\ ServerOf(t, t[n].id) = t[n]
    BY <1>5, <2>5, FirstRowStands
  <2> QED
    BY <2>1, <2>4, <2>6
<1> QED
  BY <1>5, <1>6, <1>7

\* The list the server gives.
LEMMA ListingTyped ==
  ASSUME NEW b, BackendTyped(b)
  PROVE  Listing(b) \in Seq(SrvT)
PROOF
<1> DEFINE S == DOMAIN b
           f == SetToSeq(S)
<1>1. IsFiniteSet(S) /\ S \subseteq SrvId /\ b \in [S -> Chans]
  BY DEF BackendTyped
<1> HIDE DEF S
<1>2. PICK n \in Nat : ExistsBijection(1..n, S)
  BY <1>1, FS_NatBijection
<1>3. Cardinality(S) = n
  BY <1>2, FS_CountingElements
<1>4. \E h \in [1..Cardinality(S) -> S] : IsInjective(h)
  <2>1. PICK h \in Bijection(1..n, S) : TRUE
    BY <1>2 DEF ExistsBijection
  <2>2. h \in [1..n -> S] /\ IsInjective(h)
    BY <2>1 DEF Bijection, Injection
  <2> QED
    BY <1>3, <2>2
<1>5. f \in [1..n -> S]
  BY <1>3, <1>4 DEF SetToSeq
<1>6. PICK t : t = Listing(b)
  OBVIOUS
<1>7. t = [i \in 1..n |-> Srv(f[i], b[f[i]])]
  BY <1>3, <1>6 DEF Listing, S
<1> HIDE DEF f
<1>8. ASSUME NEW i \in 1..n PROVE t[i] \in SrvT
  <2>1. f[i] \in SrvId /\ b[f[i]] \in Chans
    BY <1>1, <1>5
  <2>2. PICK x \in SrvId, chans \in Chans : x = f[i] /\ chans = b[f[i]]
    BY <2>1
  <2>3. t[i] = [id |-> x, channels |-> chans]
    BY <1>7, <2>2 DEF Srv
  <2> QED
    BY <2>3 DEF SrvT
<1>9. t \in [1..n -> SrvT]
  BY <1>7, <1>8
<1> QED
  BY <1>2, <1>6, <1>9, SeqDef

\* Memberships with one more, one less, or one changed.
Put(b, s, chans) == [b EXCEPT ![s] = chans]

LEMMA MembershipTypes ==
  ASSUME NEW b, BackendTyped(b), NEW s \in SrvId, NEW chans \in Chans
  PROVE  /\ BackendTyped(Including(b, s, chans))
         /\ BackendTyped([x \in DOMAIN b \ {s} |-> b[x]])
         /\ BackendTyped(Put(b, s, chans))
PROOF
<1>1. DOMAIN b \subseteq SrvId /\ IsFiniteSet(DOMAIN b) /\ \A x \in DOMAIN b : b[x] \in Chans
  BY DEF BackendTyped
<1>2. IsFiniteSet(DOMAIN b \cup {s}) /\ IsFiniteSet(DOMAIN b \ {s})
  BY <1>1, FS_AddElement, FS_RemoveElement
<1> DEFINE e == Including(b, s, chans)
           d == [x \in DOMAIN b \ {s} |-> b[x]]
           f == Put(b, s, chans)
<1>3. DOMAIN e = DOMAIN b \cup {s} /\ e \in [DOMAIN b \cup {s} -> Chans]
  BY <1>1 DEF Including
<1>4. DOMAIN d = DOMAIN b \ {s} /\ d \in [DOMAIN b \ {s} -> Chans]
  BY <1>1
<1>5. DOMAIN f = DOMAIN b /\ f \in [DOMAIN b -> Chans]
  BY DEF BackendTyped, Put
<1> HIDE DEF e, d, f
<1>6. BackendTyped(e)
  BY <1>1, <1>2, <1>3 DEF BackendTyped
<1>7. BackendTyped(d)
  BY <1>1, <1>2, <1>4 DEF BackendTyped
<1>8. BackendTyped(f)
  BY <1>1, <1>5 DEF BackendTyped
<1> QED
  BY <1>6, <1>7, <1>8 DEF e, d, f

-----------------------------------------------------------------------------
(***************************************************************************)
(* The effects that follow a change.                                       *)
(***************************************************************************)

Loads == {"mounted", "loading", "settling", "loaded"}
Shown == NavRoom \cup {Nowhere}
Settles(servers, a, ch, loaded) ==
  /\ StoreTyped' /\ OneSurface' /\ nServers' = servers /\ nLoaded' = loaded /\ nIn' = nIn
  /\ PlaceOK(servers, a, ch) => PlaceOK(servers, nActive', nChannel')

\* Whatever the effects return to, the place is a place, and if the change put the user in a
\* channel of the server beside it, so do they.
LEMMA CommitFacts ==
  ASSUME StoreTyped, NEW servers \in Seq(SrvT), NEW a \in Place, NEW ch \in Shown,
         NEW dm \in BOOLEAN, NEW porch \in BOOLEAN, NEW loaded \in Loads,
         Commit(servers, a, ch, dm, porch, loaded)
  PROVE  Settles(servers, a, ch, loaded)
PROOF
<1> DEFINE noted == Noted(a, ch, dm)
           back == /\ loaded = "loaded" /\ ~nRestored
                   /\ noted # Nowhere /\ InServer(servers, noted[1], noted[2])
<1>1. /\ nServers' = servers /\ nLoaded' = loaded /\ nNative' = nNative /\ nIn' = nIn
      /\ nActive' = IF back THEN noted[1] ELSE a
      /\ nChannel' = IF back THEN noted[2] ELSE ch
      /\ nDM' = (dm /\ ~back)
      /\ nPorch' = (porch /\ a = Nowhere /\ ch = Nowhere /\ ~dm /\ ~back)
      /\ nRestored' = (nRestored \/ (loaded = "loaded" /\ ~nRestored /\ (noted = Nowhere \/ back)))
  BY Zenon DEF Commit
<1>2. back => noted[1] \in SrvId /\ noted[2] \in NavRoom /\ InServer(servers, noted[1], noted[2])
  BY InServerTypes
<1> HIDE DEF noted, back
<1>3. nActive' \in Place /\ nChannel' \in Shown
  BY <1>1, <1>2 DEF Place, Shown
<1>4. nDM' \in BOOLEAN /\ nPorch' \in BOOLEAN /\ nRestored' \in BOOLEAN
  BY <1>1, Zenon
<1>5. nNative' \in BOOLEAN /\ nIn' \in BOOLEAN
  BY <1>1, Zenon DEF StoreTyped
<1>6. nServers' \in Seq(SrvT) /\ nLoaded' \in Loads
  BY <1>1
<1>7. StoreTyped'
  BY <1>3, <1>4, <1>5, <1>6, Zenon DEF StoreTyped, Loads, Shown
<1>8. OneSurface'
  <2>1. ASSUME nPorch' PROVE a = Nowhere /\ ch = Nowhere /\ ~dm /\ ~back
    BY <1>1, <2>1, Zenon
  <2>2. ASSUME nPorch' PROVE nActive' = Nowhere /\ nChannel' = Nowhere /\ ~nDM'
    BY <1>1, <2>1, <2>2, Zenon
  <2> QED
    BY <2>2, Zenon DEF OneSurface
<1>9. ASSUME PlaceOK(servers, a, ch) PROVE PlaceOK(servers, nActive', nChannel')
  <2>1. CASE back
    <3>1. nActive' = noted[1] /\ nChannel' = noted[2]
      BY <1>1, <2>1, Zenon
    <3>2. InServer(servers, nActive', nChannel')
      BY <1>2, <2>1, <3>1, Zenon
    <3> QED
      BY <3>2 DEF PlaceOK
  <2>2. CASE ~back
    <3>1. nActive' = a /\ nChannel' = ch
      BY <1>1, <2>2, Zenon
    <3> QED
      BY <1>9, <3>1, Zenon
  <2> QED
    BY <2>1, <2>2
<1> QED
  BY <1>1, <1>7, <1>8, <1>9, Zenon DEF Settles

\* A server is opened at a room of its own, or at none.
LEMMA OpenedFacts ==
  ASSUME NEW servers \in Seq(SrvT), NEW s
  PROVE  /\ setActiveServer(servers, s) \in Shown
         /\ PlaceOK(servers, s, setActiveServer(servers, s))
PROOF
<1>1. CASE ~Listed(servers, s)
  BY <1>1 DEF setActiveServer, Shown, PlaceOK
<1>2. CASE Listed(servers, s)
  <2>1. PICK i \in 1..Len(servers) : servers[i].id = s /\ ServerOf(servers, s) = servers[i]
    BY <1>2, ServerOfRow
  <2> DEFINE chans == ServerOf(servers, s).channels
  <2>2. chans \in Chans
    BY <2>1, ServerRows
  <2>3. setActiveServer(servers, s) = pickPreferredChannel(chans)
    BY <1>2 DEF setActiveServer
  <2> HIDE DEF chans
  <2>4. pickPreferredChannel(chans) \in RoomsOf(chans) \cup {Nowhere} /\ RoomsOf(chans) \subseteq NavRoom
    BY <2>2, OpenedAt, RoomFacts
  <2>5. setActiveServer(servers, s) # Nowhere => InServer(servers, s, setActiveServer(servers, s))
    BY <1>2, <2>3, <2>4 DEF InServer, chans
  <2> QED
    BY <2>3, <2>4, <2>5 DEF Shown, PlaceOK
<1> QED
  BY <1>1, <1>2

\* Where a load leaves the user.
LEMMA LandedFacts ==
  ASSUME NEW servers \in Seq(SrvT), StoreTyped, NEW a, NEW ch, Landed(servers) = <<a, ch>>
  PROVE  a \in Place /\ ch \in Shown /\ PlaceOK(servers, a, ch)
PROOF
<1>1. nActive \in Place /\ nChannel \in Shown
  BY DEF StoreTyped, Shown
<1>2. CASE InServer(servers, nActive, nChannel) \/ servers = <<>>
  <2>1. <<a, ch>> = <<nActive, nChannel>>
    BY <1>2 DEF Landed
  <2>2. a = nActive /\ ch = nChannel
    BY <2>1
  <2> QED
    BY <1>1, <1>2, <2>2 DEF PlaceOK
<1>3. CASE ~InServer(servers, nActive, nChannel) /\ servers # <<>>
  <2> DEFINE lobby == pickLobbyServer(servers)
  <2>1. <<a, ch>> = <<lobby.id, pickPreferredChannel(lobby.channels)>>
    BY <1>3 DEF Landed
  <2>2. a = lobby.id /\ ch = pickPreferredChannel(lobby.channels)
    BY <2>1
  <2>3. Listed(servers, lobby.id) /\ ServerOf(servers, lobby.id) = lobby
    <3>1. CASE Listed(servers, Lobby)
      <4>1. lobby = ServerOf(servers, Lobby)
        BY <3>1 DEF pickLobbyServer
      <4>2. lobby.id = Lobby
        BY <3>1, <4>1, ServerOfRow
      <4> QED
        BY <3>1, <4>1, <4>2
    <3>2. CASE ~Listed(servers, Lobby)
      <4>1. lobby = servers[1]
        BY <3>2 DEF pickLobbyServer
      <4> QED
        BY <1>3, <4>1, HeadStands
    <3> QED
      BY <3>1, <3>2
  <2> HIDE DEF lobby
  <2>4. lobby.id \in SrvId /\ lobby.channels \in Chans
    BY <2>3, ServerChannels
  <2>5. ch \in RoomsOf(lobby.channels) \cup {Nowhere} /\ RoomsOf(lobby.channels) \subseteq NavRoom
    BY <2>2, <2>4, OpenedAt, RoomFacts
  <2>6. ch # Nowhere => InServer(servers, a, ch)
    BY <2>2, <2>3, <2>5 DEF InServer
  <2> QED
    BY <2>2, <2>4, <2>5, <2>6 DEF Place, Shown, PlaceOK
<1> QED
  BY <1>2, <1>3

-----------------------------------------------------------------------------
(***************************************************************************)
(* What each operation makes of the list, by the changes above.            *)
(***************************************************************************)

\* A change of the channels is made to the rows of the server.
LEMMA MapServerIs ==
  ASSUME NEW servers \in Seq(SrvT), NEW s, NEW ch \in ChanT, NEW r
  PROVE  /\ MapServer(servers, s, LAMBDA chans : Append(chans, ch)) = MapBy(servers, s, Appending(ch))
         /\ MapServer(servers, s, LAMBDA chans : Without(chans, r)) = MapBy(servers, s, Dropping(r))
         /\ MapServer(servers, s, LAMBDA chans : Renamed(chans, ch)) = MapBy(servers, s, Renaming(ch))
         /\ MapServer(servers, s, Reverse) = MapBy(servers, s, Reversing)
PROOF
<1>1. \A i \in 1..Len(servers) : servers[i].channels \in Chans /\ servers[i] \in SrvT
  BY ServerRows
<1>a. \A i \in 1..Len(servers) : Appending(ch)[servers[i].channels] = Append(servers[i].channels, ch)
  BY <1>1, AppendingFacts
<1>b. \A i \in 1..Len(servers) : Dropping(r)[servers[i].channels] = Without(servers[i].channels, r)
  BY <1>1, DroppingFacts
<1>c. \A i \in 1..Len(servers) : Renaming(ch)[servers[i].channels] = Renamed(servers[i].channels, ch)
  BY <1>1, RenamingFacts
<1>d. \A i \in 1..Len(servers) : Reversing[servers[i].channels] = Reverse(servers[i].channels)
  BY <1>1, ReversingFacts
<1>2. MapServer(servers, s, LAMBDA chans : Append(chans, ch)) = MapBy(servers, s, Appending(ch))
  BY <1>a DEF MapServer, MapBy
<1>3. MapServer(servers, s, LAMBDA chans : Without(chans, r)) = MapBy(servers, s, Dropping(r))
  BY <1>b DEF MapServer, MapBy
<1>4. MapServer(servers, s, LAMBDA chans : Renamed(chans, ch)) = MapBy(servers, s, Renaming(ch))
  BY <1>c DEF MapServer, MapBy
<1>5. MapServer(servers, s, Reverse) = MapBy(servers, s, Reversing)
  BY <1>d DEF MapServer, MapBy
<1> QED
  BY <1>2, <1>3, <1>4, <1>5

\* A list of channels stays one when a channel comes, goes or gets a name.
LEMMA ChangedChannels ==
  ASSUME NEW chans \in Chans, NEW ch \in ChanT, NEW r
  PROVE  Append(chans, ch) \in Chans /\ Without(chans, r) \in Chans /\ Renamed(chans, ch) \in Chans
PROOF
<1>1. Appending(ch)[chans] \in Chans /\ Appending(ch)[chans] = Append(chans, ch)
  BY AppendingFacts
<1>2. Dropping(r)[chans] \in Chans /\ Dropping(r)[chans] = Without(chans, r)
  BY DroppingFacts
<1>3. Renaming(ch)[chans] \in Chans /\ Renaming(ch)[chans] = Renamed(chans, ch)
  BY RenamingFacts
<1> QED
  BY <1>1, <1>2, <1>3

\* Memberships that the server makes of a call are memberships.
LEMMA CarriedTyped ==
  ASSUME NEW c, CallTyped(c), BackendTyped(nBackend), Feasible(c)
  PROVE  BackendTyped(Carried(c))
PROOF
<1>1. \A ch \in ChanT : <<ch>> \in Chans
  BY SingleFacts DEF Chans
<1>2. c.op \in Ops /\ (c.op # "load" => c.server \in SrvId)
      /\ (c.op \in {"create server", "stop"} \cup ChannelOps => c.channel \in ChanT)
      /\ (c.op \in {"reorder", "stop"} => Listed(c.prev, c.server)) /\ c.prev \in Seq(SrvT)
  BY DEF CallTyped, CallT
<1>3. ASSUME c.op \in ServerOps
      PROVE  c.server \in SrvId /\ c.server \in DOMAIN nBackend /\ nBackend[c.server] \in Chans
  BY <1>3 DEF Feasible, Known, BackendTyped
<1>4. CASE c.op \in {"create channel", "launch"}
  <2>1. Carried(c) = [nBackend EXCEPT ![c.server] = Append(nBackend[c.server], c.channel)]
    BY <1>4 DEF Carried, WithChannel
  <2>2. c.server \in SrvId /\ nBackend[c.server] \in Chans /\ c.channel \in ChanT
    BY <1>2, <1>3, <1>4 DEF ServerOps, ChannelOps
  <2>3. PICK e \in Chans : e = Append(nBackend[c.server], c.channel)
    BY <2>2, ChangedChannels
  <2>4. Carried(c) = Put(nBackend, c.server, e)
    BY <2>1, <2>3 DEF Put
  <2> QED
    BY <2>2, <2>4, MembershipTypes
<1>5. CASE c.op \in {"delete channel", "stop"}
  <2>1. Carried(c) = [nBackend EXCEPT ![c.server] = Without(nBackend[c.server], c.channel.room)]
    BY <1>5 DEF Carried, WithChannel
  <2>2. c.server \in SrvId /\ nBackend[c.server] \in Chans /\ c.channel \in ChanT
    BY <1>2, <1>3, <1>5 DEF ServerOps, ChannelOps
  <2>3. PICK e \in Chans : e = Without(nBackend[c.server], c.channel.room)
    BY <2>2, ChangedChannels
  <2>4. Carried(c) = Put(nBackend, c.server, e)
    BY <2>1, <2>3 DEF Put
  <2> QED
    BY <2>2, <2>4, MembershipTypes
<1>6. CASE c.op = "rename"
  <2>1. Carried(c) = [nBackend EXCEPT ![c.server] = Renamed(nBackend[c.server], c.channel)]
    BY <1>6 DEF Carried, WithChannel
  <2>2. c.server \in SrvId /\ nBackend[c.server] \in Chans /\ c.channel \in ChanT
    BY <1>2, <1>3, <1>6 DEF ServerOps, ChannelOps
  <2>3. PICK e \in Chans : e = Renamed(nBackend[c.server], c.channel)
    BY <2>2, ChangedChannels
  <2>4. Carried(c) = Put(nBackend, c.server, e)
    BY <2>1, <2>3 DEF Put
  <2> QED
    BY <2>2, <2>4, MembershipTypes
<1>7. CASE c.op = "reorder"
  <2>1. Carried(c) = [nBackend EXCEPT ![c.server] = Arranged(nBackend[c.server], OrderSent(c))]
    BY <1>7 DEF Carried, WithChannel
  <2>2. c.server \in SrvId /\ nBackend[c.server] \in Chans
    BY <1>3, <1>7 DEF ServerOps
  <2>3. ServerOf(c.prev, c.server).channels \in Chans
    BY <1>2, <1>7, ServerChannels
  <2>4. PICK order \in Chans : order = OrderSent(c)
    BY <2>3, ReversingFacts DEF OrderSent
  <2>5. RoomsOf(order) = RoomsOf(nBackend[c.server])
    BY <1>7, <2>4 DEF Feasible
  <2>6. PICK e \in Chans : e = Arranged(nBackend[c.server], order)
    BY <2>2, <2>5, ArrangedFacts
  <2>7. Carried(c) = Put(nBackend, c.server, e)
    BY <2>1, <2>4, <2>6 DEF Put
  <2> QED
    BY <2>2, <2>7, MembershipTypes
<1>8. CASE c.op = "create server"
  <2>1. Carried(c) = Including(nBackend, c.server, <<c.channel>>)
    BY <1>8 DEF Carried
  <2>2. <<c.channel>> \in Chans /\ c.server \in SrvId
    BY <1>1, <1>2, <1>8
  <2> QED
    BY <2>1, <2>2, MembershipTypes
<1>9. CASE c.op \in {"join", "joining"} /\ ~Known(c)
  <2> DEFINE fresh == CHOOSE r \in NavRoom : r \notin Managed(nBackend)
  <2>1. Carried(c) = Including(nBackend, c.server, <<Chan(fresh, "welcome")>>)
    BY <1>9 DEF Carried, Enrolled
  <2>2. \E r \in NavRoom : r \notin Managed(nBackend)
    BY <1>9 DEF Feasible
  <2>3. fresh \in NavRoom
    BY <2>2
  <2> HIDE DEF fresh
  <2>4. Chan(fresh, "welcome") \in ChanT
    BY <2>3 DEF Chan, ChanT
  <2>5. <<Chan(fresh, "welcome")>> \in Chans /\ c.server \in SrvId
    BY <1>1, <1>2, <1>9, <2>4
  <2> QED
    BY <2>1, <2>5, MembershipTypes
<1>10. CASE c.op \in {"delete server", "leave"}
  <2>1. Carried(c) = [x \in DOMAIN nBackend \ {c.server} |-> nBackend[x]]
    BY <1>10 DEF Carried
  <2>2. c.server \in SrvId
    BY <1>2, <1>10
  <2>3. \E chans : chans \in Chans
    BY EmptySeq DEF Chans
  <2> QED
    BY <2>1, <2>2, <2>3, MembershipTypes
<1>11. CASE c.op = "load" \/ (c.op \in {"join", "joining"} /\ Known(c))
  <2>1. Carried(c) = nBackend
    BY <1>11 DEF Carried
  <2> QED
    BY <2>1
<1> QED
  BY <1>2, <1>4, <1>5, <1>6, <1>7, <1>8, <1>9, <1>10, <1>11 DEF Ops

-----------------------------------------------------------------------------
(***************************************************************************)
(* What a step keeps of the invariant, whatever its operation.             *)
(***************************************************************************)

LEMMA NavParts ==
  ASSUME NavIInv
  PROVE  /\ StoreTyped /\ CallsCounted /\ CallsTyped /\ OneSurface /\ nStray \in BOOLEAN
         /\ nServers \in Seq(SrvT) /\ nActive \in Place /\ nChannel \in Shown /\ nLoaded \in Loads
         /\ nDM \in BOOLEAN /\ nPorch \in BOOLEAN /\ nIn \in BOOLEAN
         /\ BackendTyped(nBackend) /\ \A c \in nCalls : CallTyped(c)
         /\ ~nStray => PlaceOK(nServers, nActive, nChannel)
PROOF
<1>1. StoreTyped /\ CallsCounted /\ CallsTyped /\ OneSurface /\ nStray \in BOOLEAN
  BY Zenon DEF NavIInv, NavTyped
<1>2. /\ nServers \in Seq(SrvT) /\ nActive \in Place /\ nChannel \in Shown /\ nLoaded \in Loads
      /\ nDM \in BOOLEAN /\ nPorch \in BOOLEAN /\ nIn \in BOOLEAN
  BY <1>1, Zenon DEF StoreTyped, Shown, Loads
<1>3. BackendTyped(nBackend) /\ \A c \in nCalls : CallTyped(c)
  BY <1>1, Zenon DEF CallsTyped
<1>4. ~nStray => PlaceOK(nServers, nActive, nChannel)
  BY Zenon DEF NavIInv
<1> QED
  BY <1>1, <1>2, <1>3, <1>4, Zenon

\* A change of the list or of the place in it.
LEMMA CommitHolds ==
  ASSUME NavIInv, NEW servers \in Seq(SrvT), NEW a \in Place, NEW ch \in Shown, NEW dm \in BOOLEAN,
         NEW porch \in BOOLEAN, NEW loaded \in Loads, Commit(servers, a, ch, dm, porch, loaded),
         CallsTyped', CallsCounted', nStray' \in BOOLEAN, ~nStray' => PlaceOK(servers, a, ch)
  PROVE  NavIInv'
PROOF
<1>1. StoreTyped
  BY NavParts
<1>2. Settles(servers, a, ch, loaded)
  BY <1>1, CommitFacts
<1>3. /\ StoreTyped' /\ OneSurface' /\ nServers' = servers
      /\ PlaceOK(servers, a, ch) => PlaceOK(servers, nActive', nChannel')
  BY <1>2, Zenon DEF Settles
<1>4. ~nStray' => PlaceOK(nServers', nActive', nChannel')
  BY <1>3, Zenon
<1> QED
  BY <1>3, <1>4, Zenon DEF NavIInv, NavTyped

\* A step that leaves the list and the place.
LEMMA KeepHolds ==
  ASSUME NavIInv, UNCHANGED <<nServers, place, nRestored, nStray>>, nLoaded' \in Loads,
         CallsTyped', CallsCounted'
  PROVE  NavIInv'
PROOF
<1>1. /\ nServers' = nServers /\ nActive' = nActive /\ nChannel' = nChannel /\ nDM' = nDM /\ nPorch' = nPorch
      /\ nNative' = nNative /\ nIn' = nIn /\ nRestored' = nRestored /\ nStray' = nStray
  BY DEF place
<1>2. StoreTyped /\ OneSurface /\ nStray \in BOOLEAN /\ (~nStray => PlaceOK(nServers, nActive, nChannel))
  BY NavParts
<1>3. StoreTyped'
  BY <1>1, <1>2, Zenon DEF StoreTyped, Loads
<1>4. OneSurface'
  BY <1>1, <1>2, Zenon DEF OneSurface
<1>5. ~nStray' => PlaceOK(nServers', nActive', nChannel')
  <2>1. PlaceOK(nServers, nActive, nChannel) => PlaceOK(nServers', nActive', nChannel')
    BY <1>1 DEF PlaceOK
  <2>2. ~nStray' => ~nStray
    BY <1>1
  <2>3. ~nStray => PlaceOK(nServers, nActive, nChannel)
    BY <1>2, Zenon
  <2> QED
    BY <2>1, <2>2, <2>3, Zenon
<1>6. nStray' \in BOOLEAN
  BY <1>1, <1>2, Zenon
<1> QED
  BY <1>3, <1>4, <1>5, <1>6, Zenon DEF NavIInv, NavTyped

\* The counters, of a step that makes no call; of one that makes one.
LEMMA CountsKept ==
  ASSUME NavIInv, nSent' = nSent, nReloads' = nReloads, nLoaded' = "mounted" => nLoaded = "mounted"
  PROVE  CallsCounted'
PROOF
<1>1. CallsCounted /\ MaxCalls \in Nat /\ MaxReloads \in Nat
  BY NavParts, NavigationAssumption
<1> QED
  BY <1>1 DEF CallsCounted

LEMMA CountsAsked ==
  ASSUME NavIInv, nSent < MaxCalls, nSent' = nSent + 1, nReloads' = nReloads
  PROVE  CallsCounted'
PROOF
<1>1. CallsCounted /\ MaxCalls \in Nat /\ MaxReloads \in Nat
  BY NavParts, NavigationAssumption
<1> QED
  BY <1>1 DEF CallsCounted

\* An answer that changes the list or the place.
LEMMA AnswerHolds ==
  ASSUME NavIInv, NEW c \in nCalls, Done(c), NEW servers \in Seq(SrvT), NEW a \in Place, NEW ch \in Shown,
         NEW loaded \in Loads, loaded = "mounted" => nLoaded = "mounted",
         Commit(servers, a, ch, nDM, nPorch, loaded),
         ~nStray' => PlaceOK(servers, a, ch)
  PROVE  NavIInv'
PROOF
<1>1. /\ nCalls' = nCalls \ {c} /\ nSent' = nSent /\ nBackend' = nBackend /\ nReloads' = nReloads
      /\ nStray' = IF c.op \in {"load", "joining"} THEN nStray /\ c.stage = "failed" /\ c.op = "load"
                   ELSE nStray \/ (c.stage = "done" /\ Strays(c)) \/ (c.op = "reorder" /\ Strays(c))
  BY DEF Done
<1>2. nStray' \in BOOLEAN
  BY <1>1, Zenon
<1>3. CallsTyped'
  BY <1>1, NavParts DEF CallsTyped
<1>4. nLoaded' = loaded
  BY Zenon DEF Commit
<1>5. CallsCounted'
  BY <1>1, <1>4, CountsKept
<1>6. PICK dm \in BOOLEAN, porch \in BOOLEAN : dm = nDM /\ porch = nPorch
  BY NavParts
<1>7. Commit(servers, a, ch, dm, porch, loaded)
  BY <1>6
<1> QED
  BY <1>2, <1>3, <1>5, <1>7, CommitHolds

\* One that leaves what is loaded.
LEMMA ListHolds ==
  ASSUME NavIInv, NEW c \in nCalls, Done(c), NEW servers \in Seq(SrvT), NEW a \in Place, NEW ch \in Shown,
         Commit(servers, a, ch, nDM, nPorch, nLoaded),
         ~nStray' => PlaceOK(servers, a, ch)
  PROVE  NavIInv'
PROOF
<1>1. PICK loaded \in Loads : loaded = nLoaded
  BY NavParts
<1>2. Commit(servers, a, ch, nDM, nPorch, loaded)
  BY <1>1
<1> QED
  BY <1>1, <1>2, AnswerHolds

\* An answer that has not strayed, and what that says of it.
LEMMA NotStrayed ==
  ASSUME NavIInv, NEW c \in nCalls, Done(c), c.op \notin {"load", "joining"}, ~nStray'
  PROVE  /\ PlaceOK(nServers, nActive, nChannel)
         /\ c.stage = "done" \/ c.op = "reorder" => ~Strays(c)
PROOF
<1>1. ~nStray /\ ~(c.stage = "done" /\ Strays(c)) /\ ~(c.op = "reorder" /\ Strays(c))
  BY DEF Done
<1> QED
  BY <1>1, NavParts

-----------------------------------------------------------------------------
(***************************************************************************)
(* Clicks and calls of the user.                                           *)
(***************************************************************************)

LEMMA GoHolds ==
  ASSUME NavIInv, NEW a \in Place, NEW ch \in Shown, NEW dm \in BOOLEAN, NEW porch \in BOOLEAN,
         Go(a, ch, dm, porch), PlaceOK(nServers, a, ch)
  PROVE  NavIInv'
PROOF
<1>1. /\ Commit(nServers, a, ch, dm, porch, nLoaded) /\ nStray' = FALSE
      /\ nCalls' = nCalls /\ nSent' = nSent /\ nBackend' = nBackend /\ nReloads' = nReloads
  BY DEF Go
<1>2. PICK loaded \in Loads : loaded = nLoaded
  BY NavParts
<1>3. PICK servers \in Seq(SrvT) : servers = nServers
  BY NavParts
<1>4. Commit(servers, a, ch, dm, porch, loaded)
  BY <1>1, <1>2, <1>3
<1>5. nLoaded' = nLoaded
  BY <1>1, Zenon DEF Commit
<1>6. CallsCounted'
  BY <1>1, <1>5, CountsKept
<1>7. CallsTyped'
  BY <1>1, NavParts DEF CallsTyped
<1>8. PlaceOK(servers, a, ch)
  BY <1>3
<1> QED
  BY <1>1, <1>4, <1>6, <1>7, <1>8, CommitHolds

LEMMA ServerClickHolds ==
  ASSUME NavIInv, NEW s \in SrvId, handleServerClick(s)
  PROVE  NavIInv'
PROOF
<1>1. nServers \in Seq(SrvT) /\ nPorch \in BOOLEAN
  BY NavParts
<1>2. PICK servers \in Seq(SrvT) : servers = nServers
  BY <1>1
<1>3. PICK ch \in Shown : ch = setActiveServer(servers, s)
  BY <1>2, OpenedFacts
<1>4. PICK porch \in BOOLEAN : porch = nPorch
  BY <1>1
<1>5. Go(s, ch, FALSE, porch)
  BY <1>2, <1>3, <1>4 DEF handleServerClick
<1>6. PlaceOK(nServers, s, ch)
  BY <1>2, <1>3, OpenedFacts
<1>7. s \in Place
  BY DEF Place
<1> QED
  BY <1>5, <1>6, <1>7, GoHolds

LEMMA OtherClicksHold ==
  ASSUME NavIInv, handleDMClick \/ openLocal \/ (\E r \in NavRoom : handleChannelClick(r))
  PROVE  NavIInv'
PROOF
<1>1. nPorch \in BOOLEAN /\ nDM \in BOOLEAN /\ nActive \in Place
  BY NavParts
<1>2. Nowhere \in Place /\ Nowhere \in Shown
  BY DEF Place, Shown
<1>3. PlaceOK(nServers, Nowhere, Nowhere)
  BY DEF PlaceOK
<1>4. CASE handleDMClick
  <2>1. PICK porch \in BOOLEAN : porch = nPorch
    BY <1>1
  <2>2. Go(Nowhere, Nowhere, TRUE, porch)
    BY <1>4, <2>1 DEF handleDMClick
  <2> QED
    BY <1>2, <1>3, <2>2, GoHolds
<1>5. CASE openLocal
  <2>1. Go(Nowhere, Nowhere, FALSE, TRUE)
    BY <1>5 DEF openLocal
  <2> QED
    BY <1>2, <1>3, <2>1, GoHolds
<1>6. ASSUME NEW r \in NavRoom, handleChannelClick(r)
      PROVE  NavIInv'
  <2>1. PICK porch \in BOOLEAN : porch = nPorch
    BY <1>1
  <2>2. PICK dm \in BOOLEAN : dm = nDM
    BY <1>1
  <2>3. PICK a \in Place : a = nActive
    BY <1>1
  <2>4. Go(a, r, dm, porch) /\ InServer(nServers, a, r)
    BY <1>6, <2>1, <2>2, <2>3 DEF handleChannelClick
  <2>5. r \in Shown /\ PlaceOK(nServers, a, r)
    BY <2>4 DEF Shown, PlaceOK
  <2> QED
    BY <2>4, <2>5, GoHolds
<1> QED
  BY <1>4, <1>5, <1>6

\* A call that shows nothing before its answer.
LEMMA CallHolds ==
  ASSUME NavIInv, NEW op \in Ops \ {"reorder", "joining"}, NEW s \in Place, NEW ch \in AnyChan,
         op # "load" => s \in SrvId,
         op \in {"create server", "stop"} \cup ChannelOps => ch \in ChanT,
         op = "stop" => Listed(nServers, s),
         AskOnly(Call(op, s, ch))
  PROVE  NavIInv'
PROOF
<1>1. nServers \in Seq(SrvT) /\ nSent \in Nat /\ <<>> \in Seq(SrvT)
  BY NavParts, EmptySeq DEF CallsCounted
<1>2. PICK c : c = Call(op, s, ch)
  OBVIOUS
<1>3. PICK prev \in Seq(SrvT) : prev = IF op = "stop" THEN nServers ELSE <<>>
  BY <1>1
<1>4. c = [id |-> nSent, op |-> op, server |-> s, channel |-> ch, boot |-> FALSE,
           prev |-> prev, stage |-> "sent", value |-> <<>>]
  BY <1>2, <1>3 DEF Call
<1>5. PICK n \in Nat : n = nSent
  BY <1>1
<1>6. c = [id |-> n, op |-> op, server |-> s, channel |-> ch, boot |-> FALSE,
           prev |-> prev, stage |-> "sent", value |-> <<>>]
  BY <1>4, <1>5
<1>7. c \in CallT /\ c.op = op /\ c.server = s /\ c.channel = ch /\ c.prev = prev
  BY <1>1, <1>6 DEF CallT
<1>8. CallTyped(c)
  BY <1>3, <1>7 DEF CallTyped
<1>9. /\ nSent < MaxCalls /\ nCalls' = nCalls \cup {c} /\ nSent' = nSent + 1
      /\ UNCHANGED <<nServers, place, nRestored, nStray>> /\ nLoaded' = nLoaded
      /\ nBackend' = nBackend /\ nReloads' = nReloads
  BY <1>2 DEF AskOnly, Ask
<1>10. CallsTyped'
  BY <1>8, <1>9, NavParts DEF CallsTyped
<1>11. CallsCounted'
  BY <1>9, CountsAsked
<1>12. nLoaded' \in Loads
  BY <1>9, NavParts
<1> QED
  BY <1>9, <1>10, <1>11, <1>12, KeepHolds

LEMMA CallsHold ==
  ASSUME NavIInv
  PROVE  /\ AskLoad(Nowhere) => NavIInv'
         /\ AskStop => NavIInv'
         /\ \A s \in SrvId : AskJoin(s) => NavIInv'
         /\ \A s \in SrvId : AskRemoveServer("delete server", s) \/ AskRemoveServer("leave", s) => NavIInv'
         /\ \A s \in SrvId, r \in NavRoom : AskCreateServer(s, r) => NavIInv'
         /\ \A op \in ChannelOps, r \in NavRoom, name \in {"welcome", "other"} : AskChannel(op, r, name) => NavIInv'
PROOF
<1>1. NoChannel \in AnyChan
  BY DEF NoChannel, Chan, Place, AnyChan
<1>2. Nowhere \in Place /\ SrvId \subseteq Place
  BY DEF Place
<1>3. \A r \in NavRoom, name \in {"welcome", "other"} : Chan(r, name) \in ChanT /\ Chan(r, name) \in AnyChan
  BY DEF Chan, ChanT, AnyChan
<1>a. nServers \in Seq(SrvT)
  BY NavParts
<1>4. ASSUME AskLoad(Nowhere) PROVE NavIInv'
  <2>1. AskOnly(Call("load", Nowhere, NoChannel))
    BY <1>4 DEF AskLoad
  <2>2. "load" \in Ops \ {"reorder", "joining"} /\ "load" \notin ChannelOps
    BY DEF Ops, ChannelOps
  <2> QED
    BY <1>1, <1>2, <2>1, <2>2, CallHolds
<1>5. ASSUME NEW s \in SrvId, AskJoin(s) PROVE NavIInv'
  <2>1. AskOnly(Call("join", s, NoChannel))
    BY <1>5 DEF AskJoin
  <2>2. "join" \in Ops \ {"reorder", "joining"} /\ "join" \notin ChannelOps
    BY DEF Ops, ChannelOps
  <2> QED
    BY <1>1, <1>2, <2>1, <2>2, CallHolds
<1>6. ASSUME NEW s \in SrvId, NEW op \in {"delete server", "leave"}, AskRemoveServer(op, s) PROVE NavIInv'
  <2>1. AskOnly(Call(op, s, NoChannel))
    BY <1>6 DEF AskRemoveServer
  <2>2. op \in Ops \ {"reorder", "joining"} /\ op \notin {"create server", "stop"} \cup ChannelOps
    BY DEF Ops, ChannelOps
  <2>3. op # "stop"
    OBVIOUS
  <2> QED
    BY <1>1, <1>2, <2>1, <2>2, <2>3, CallHolds
<1>7. ASSUME NEW s \in SrvId, NEW r \in NavRoom, AskCreateServer(s, r) PROVE NavIInv'
  <2>1. AskOnly(Call("create server", s, Chan(r, "other")))
    BY <1>7 DEF AskCreateServer
  <2>2. "create server" \in Ops \ {"reorder", "joining"}
    BY DEF Ops
  <2> QED
    BY <1>2, <1>3, <2>1, <2>2, CallHolds
<1>8. ASSUME NEW op \in ChannelOps, NEW r \in NavRoom, NEW name \in {"welcome", "other"}, AskChannel(op, r, name)
      PROVE  NavIInv'
  <2>1. AskOnly(Call(op, nActive, [Chan(r, name) EXCEPT !.app = (op = "launch")])) /\ Listed(nServers, nActive)
    BY <1>8 DEF AskChannel
  <2>2. op \in Ops \ {"reorder", "joining"} /\ op # "load" /\ op # "stop"
    BY DEF Ops, ChannelOps
  <2>3. PICK s \in SrvId : s = nActive
    BY <1>a, <2>1, ServerChannels
  <2>4. PICK x \in BOOLEAN : x = (op = "launch")
    OBVIOUS
  <2>5. PICK ch : ch = [Chan(r, name) EXCEPT !.app = x]
    OBVIOUS
  <2>6. ch \in ChanT /\ ch \in AnyChan
    BY <2>5 DEF Chan, ChanT, AnyChan
  <2>7. AskOnly(Call(op, s, ch))
    BY <2>1, <2>3, <2>4, <2>5
  <2> QED
    BY <1>2, <2>2, <2>6, <2>7, CallHolds
<1>9. ASSUME AskStop PROVE NavIInv'
  <2>1. AskOnly(Call("stop", nActive, Chan(nChannel, "other"))) /\ InServer(nServers, nActive, nChannel)
    BY <1>9 DEF AskStop
  <2>2. PICK s \in SrvId, r \in NavRoom : s = nActive /\ r = nChannel
    BY <1>a, <2>1, InServerTypes
  <2>3. AskOnly(Call("stop", s, Chan(r, "other"))) /\ Listed(nServers, s)
    BY <2>1, <2>2 DEF InServer
  <2>4. "stop" \in Ops \ {"reorder", "joining"}
    BY DEF Ops
  <2> QED
    BY <1>2, <1>3, <2>3, <2>4, CallHolds
<1> QED
  BY <1>4, <1>5, <1>6, <1>7, <1>8, <1>9

-----------------------------------------------------------------------------
(***************************************************************************)
(* A call that goes on: carried out, refused, or followed by another.      *)
(***************************************************************************)

LEMMA CallMoves ==
  ASSUME NavIInv, NEW c \in nCalls, NEW d, CallTyped(d),
         nCalls' = (nCalls \ {c}) \cup {d}, BackendTyped(nBackend'),
         UNCHANGED <<nServers, place, nRestored, nStray>>, nLoaded' = nLoaded, nSent' = nSent,
         nReloads' = nReloads
  PROVE  NavIInv'
PROOF
<1>1. CallsTyped'
  BY NavParts DEF CallsTyped
<1>2. CallsCounted'
  BY CountsKept
<1>3. nLoaded' \in Loads
  BY NavParts
<1> QED
  BY <1>1, <1>2, <1>3, KeepHolds

\* The call with its answer.
LEMMA MovedCall ==
  ASSUME NEW c, CallTyped(c), NEW stage \in {"sent", "done", "failed"}, NEW value \in Seq(SrvT)
  PROVE  CallTyped(Moved(c, stage, value))
PROOF
<1> DEFINE d == Moved(c, stage, value)
<1>1. c \in CallT
  BY DEF CallTyped
<1>2. d \in CallT /\ d.op = c.op /\ d.server = c.server /\ d.channel = c.channel /\ d.prev = c.prev
  BY <1>1 DEF CallT, Moved
<1> HIDE DEF d
<1>3. CallTyped(d)
  BY <1>2 DEF CallTyped
<1> QED
  BY <1>3 DEF d

LEMMA RefusedHolds ==
  ASSUME NavIInv, NEW c \in nCalls, RefuseCall(c)
  PROVE  NavIInv'
PROOF
<1>1. CallTyped(c) /\ BackendTyped(nBackend) /\ <<>> \in Seq(SrvT)
  BY NavParts, EmptySeq
<1>2. PICK d : d = Moved(c, "failed", <<>>)
  OBVIOUS
<1>3. CallTyped(d)
  BY <1>1, <1>2, MovedCall
<1>4. /\ nCalls' = (nCalls \ {c}) \cup {d} /\ nBackend' = nBackend
      /\ UNCHANGED <<nServers, place, nRestored, nStray>> /\ nLoaded' = nLoaded /\ nSent' = nSent
      /\ nReloads' = nReloads
  BY <1>2 DEF RefuseCall, CallMoved, Moved
<1> QED
  BY <1>1, <1>3, <1>4, CallMoves

LEMMA ServedHolds ==
  ASSUME NavIInv, NEW c \in nCalls, ServeCall(c)
  PROVE  NavIInv'
PROOF
<1>1. CallTyped(c) /\ BackendTyped(nBackend)
  BY NavParts
<1>2. /\ Feasible(c) /\ nBackend' = Carried(c)
      /\ CallMoved(c, "done", IF c.op \in {"load", "joining"} THEN Listing(nBackend') ELSE <<>>)
      /\ UNCHANGED <<nServers, place, nRestored, nStray>> /\ nLoaded' = nLoaded /\ nSent' = nSent
      /\ nReloads' = nReloads
  BY DEF ServeCall
<1>3. PICK b : b = Carried(c)
  OBVIOUS
<1>4. BackendTyped(b)
  BY <1>1, <1>2, <1>3, CarriedTyped
<1>5. (IF c.op \in {"load", "joining"} THEN Listing(b) ELSE <<>>) \in Seq(SrvT)
  BY <1>4, ListingTyped, EmptySeq
<1>6. PICK value \in Seq(SrvT) : value = IF c.op \in {"load", "joining"} THEN Listing(b) ELSE <<>>
  BY <1>5
<1>7. PICK d : d = Moved(c, "done", value)
  OBVIOUS
<1>8. nCalls' = (nCalls \ {c}) \cup {d}
  BY <1>2, <1>3, <1>6, <1>7 DEF CallMoved, Moved
<1>9. CallTyped(d) /\ BackendTyped(nBackend')
  BY <1>1, <1>2, <1>3, <1>4, <1>7, MovedCall
<1> QED
  BY <1>2, <1>8, <1>9, CallMoves

-----------------------------------------------------------------------------
(***************************************************************************)
(* Answers.                                                                *)
(***************************************************************************)

\* The default server is tried when the list is empty.
LEMMA JoiningHolds ==
  ASSUME NavIInv, NEW c \in nCalls, c.op = "load", c.stage = "done", c.value = <<>>, loadServers(c)
  PROVE  NavIInv'
PROOF
<1>1. CallTyped(c) /\ BackendTyped(nBackend)
  BY NavParts
<1>2. PICK d : d = [c EXCEPT !.op = "joining", !.server = Lobby, !.channel.room = c.server, !.stage = "sent"]
  OBVIOUS
<1>3. /\ nCalls' = (nCalls \ {c}) \cup {d} /\ nBackend' = nBackend
      /\ UNCHANGED <<nServers, place, nRestored, nStray>> /\ nLoaded' = nLoaded /\ nSent' = nSent
      /\ nReloads' = nReloads
  BY <1>2 DEF loadServers
<1>4. Lobby \in SrvId /\ Lobby \in Place /\ c \in CallT /\ c.server \in Place
  BY <1>1, NavigationAssumption DEF CallTyped, CallT, Place
<1>5. c.channel \in AnyChan
  BY <1>4 DEF CallT
<1>6. PICK ch : ch = [c.channel EXCEPT !.room = c.server]
  OBVIOUS
<1>7. ch \in AnyChan /\ ch.room = c.server
  BY <1>4, <1>5, <1>6 DEF AnyChan
<1>8. d = [c EXCEPT !.op = "joining", !.server = Lobby, !.channel = ch, !.stage = "sent"]
  BY <1>2, <1>6
<1>9. d.op = "joining" /\ d.server = Lobby /\ d.channel = ch /\ d \in CallT
  BY <1>4, <1>7, <1>8 DEF CallT, Ops
<1>10. CallTyped(d)
  BY <1>4, <1>7, <1>9 DEF CallTyped, ChannelOps
<1> QED
  BY <1>1, <1>3, <1>10, CallMoves

\* The list is taken over and the user put where it leads.
LEMMA LoadedHolds ==
  ASSUME NavIInv, NEW c \in nCalls, loadServers(c), ~(c.op = "load" /\ c.stage = "done" /\ c.value = <<>>)
  PROVE  NavIInv'
PROOF
<1>1. CallTyped(c) /\ nServers \in Seq(SrvT) /\ StoreTyped
  BY NavParts
<1>2. c.value \in Seq(SrvT) /\ c.server \in Place /\ (c.op = "joining" => c.channel.room \in Place)
  BY <1>1 DEF CallTyped, CallT
<1> DEFINE gives == c.stage = "done" \/ c.op = "joining"
           at == IF gives THEN Landed(c.value) ELSE <<nActive, nChannel>>
           list == IF gives THEN c.value ELSE nServers
           next == IF c.op = "joining" THEN c.channel.room ELSE c.server
<1>3. /\ c.op \in {"load", "joining"} /\ c.stage \in {"done", "failed"}
      /\ IF next = Nowhere THEN Commit(list, at[1], at[2], nDM, nPorch, Settled(c))
         ELSE Commit(list, next, setActiveServer(list, next), nDM, nPorch, Settled(c))
      /\ Done(c)
  BY DEF loadServers
<1>4. next \in Place
  BY <1>2
<1>5. list \in Seq(SrvT)
  BY <1>1, <1>2
<1>6. ~gives => nStray' = nStray
  <2>1. nStray' = IF c.op \in {"load", "joining"} THEN nStray /\ c.stage = "failed" /\ c.op = "load"
                  ELSE nStray \/ (c.stage = "done" /\ Strays(c)) \/ (c.op = "reorder" /\ Strays(c))
    BY <1>3 DEF Done
  <2>2. ~gives => c.stage = "failed" /\ c.op = "load"
    BY <1>3
  <2>3. nStray \in BOOLEAN
    BY NavParts
  <2> HIDE DEF gives
  <2> QED
    BY <2>1, <2>2, <2>3
<1>7. PICK a, ch : at = <<a, ch>> /\ a \in Place /\ ch \in Shown
                   /\ (~nStray' => PlaceOK(list, a, ch))
  <2>1. CASE gives
    <3>1. \E a, ch : Landed(c.value) = <<a, ch>>
      BY DEF Landed
    <3>2. PICK a, ch : Landed(c.value) = <<a, ch>>
      BY <3>1
    <3>3. a \in Place /\ ch \in Shown /\ PlaceOK(c.value, a, ch)
      BY <1>1, <1>2, <3>2, LandedFacts
    <3>4. at = <<a, ch>> /\ list = c.value
      BY <2>1, <3>2
    <3> QED
      BY <3>3, <3>4
  <2>2. CASE ~gives
    <3>1. at = <<nActive, nChannel>> /\ list = nServers
      BY <2>2
    <3> QED
      BY <1>6, <2>2, <3>1, NavParts
  <2> QED
    BY <2>1, <2>2
<1>8. PICK servers \in Seq(SrvT) : servers = list
  BY <1>5
<1>9. PICK s \in Place : s = next
  BY <1>4
<1>10. Settled(c) \in Loads /\ (Settled(c) = "mounted" => nLoaded = "mounted")
  BY NavParts DEF Settled, Loads
<1>11. PICK loaded \in Loads : loaded = Settled(c)
  BY <1>10
<1> HIDE DEF at, list, next, gives
<1>14. at[1] = a /\ at[2] = ch
  BY <1>7
<1>15. ~nStray' => PlaceOK(servers, a, ch)
  BY <1>7, <1>8
<1>16. loaded = "mounted" => nLoaded = "mounted"
  BY <1>10, <1>11
<1>17. CASE next = Nowhere
  <2>1. Commit(servers, a, ch, nDM, nPorch, loaded)
    BY <1>3, <1>8, <1>11, <1>14, <1>17
  <2> QED
    BY <1>3, <1>7, <1>15, <1>16, <2>1, AnswerHolds
<1>18. CASE next # Nowhere
  <2>1. PICK to \in Shown : to = setActiveServer(servers, s)
    BY OpenedFacts
  <2>2. Commit(servers, s, to, nDM, nPorch, loaded)
    BY <1>3, <1>8, <1>9, <1>11, <1>18, <2>1
  <2>3. PlaceOK(servers, s, to)
    BY <2>1, OpenedFacts
  <2> QED
    BY <1>3, <1>16, <2>2, <2>3, AnswerHolds
<1> QED
  BY <1>17, <1>18

\* A joined server is loaded next; a failed call is a toast.
LEMMA JoinedHolds ==
  ASSUME NavIInv, NEW c \in nCalls, Joined(c), c.stage = "done"
  PROVE  NavIInv'
PROOF
<1>1. CallTyped(c) /\ BackendTyped(nBackend)
  BY NavParts
<1>2. PICK d : d = [c EXCEPT !.op = "load", !.stage = "sent"]
  OBVIOUS
<1>3. /\ nCalls' = (nCalls \ {c}) \cup {d} /\ nBackend' = nBackend
      /\ UNCHANGED <<nServers, place, nRestored, nStray>> /\ nLoaded' = nLoaded /\ nSent' = nSent
      /\ nReloads' = nReloads
  BY <1>2 DEF Joined
<1>4. c \in CallT
  BY <1>1 DEF CallTyped
<1>5. d.op = "load" /\ d \in CallT
  BY <1>2, <1>4 DEF CallT, Ops
<1>6. CallTyped(d)
  BY <1>5 DEF CallTyped, ChannelOps
<1> QED
  BY <1>1, <1>3, <1>6, CallMoves

LEMMA EndedHolds ==
  ASSUME NavIInv, NEW c \in nCalls, Toasted(c) \/ (Joined(c) /\ c.stage # "done")
  PROVE  NavIInv'
PROOF
<1>1. /\ nCalls' = nCalls \ {c} /\ UNCHANGED <<nServers, place, nRestored>> /\ nLoaded' = nLoaded
      /\ nSent' = nSent /\ nReloads' = nReloads /\ nBackend' = nBackend
  BY DEF Toasted, Joined, Done
<1>2. nStray' = nStray
  <2>1. CASE Joined(c) /\ c.stage # "done"
    BY <2>1 DEF Joined
  <2>2. CASE Toasted(c)
    <3>1. /\ c.op \notin {"load", "joining"} /\ c.stage # "done" /\ c.op # "reorder"
          /\ nStray' = IF c.op \in {"load", "joining"} THEN nStray /\ c.stage = "failed" /\ c.op = "load"
                       ELSE nStray \/ (c.stage = "done" /\ Strays(c)) \/ (c.op = "reorder" /\ Strays(c))
      BY <2>2 DEF Toasted, Done
    <3>2. nStray \in BOOLEAN
      BY NavParts
    <3> QED
      BY <3>1, <3>2
  <2> QED
    BY <2>1, <2>2
<1>3. CallsTyped'
  BY <1>1, NavParts DEF CallsTyped
<1>4. CallsCounted'
  BY <1>1, CountsKept
<1>5. nLoaded' \in Loads
  BY <1>1, NavParts
<1> QED
  BY <1>1, <1>2, <1>3, <1>4, <1>5, KeepHolds

\* A new server is shown unless a load has brought it already.
LEMMA ServerCreatedHolds ==
  ASSUME NavIInv, NEW c \in nCalls, createServer(c)
  PROVE  NavIInv'
PROOF
<1>1. CallTyped(c) /\ nServers \in Seq(SrvT)
  BY NavParts
<1>2. /\ c.op = "create server" /\ c.stage = "done" /\ Done(c)
      /\ Commit(Append(nServers, Srv(c.server, <<c.channel>>)), c.server, c.channel.room, nDM, nPorch, nLoaded)
  BY DEF createServer
<1>3. c.server \in SrvId /\ c.channel \in ChanT /\ <<c.channel>> \in Chans
  BY <1>1, <1>2, SingleFacts DEF CallTyped, Chans
<1> DEFINE n == Len(nServers) + 1
           v == Srv(c.server, <<c.channel>>)
<1>4. v \in SrvT /\ v.id = c.server /\ v.channels = <<c.channel>>
  BY <1>3 DEF Srv, SrvT
<1>5. Append(nServers, v) \in Seq(SrvT)
  BY <1>1, <1>4, AppendProperties
<1>6. PICK servers \in Seq(SrvT) : servers = Append(nServers, v)
  BY <1>5
<1>7. c.server \in Place /\ c.channel.room \in Shown
  BY <1>3 DEF Place, Shown, ChanT
<1>8. ASSUME ~nStray' PROVE PlaceOK(servers, c.server, c.channel.room)
  <2>1. ~Strays(c)
    BY <1>2, <1>8, NotStrayed
  <2>2. ~Listed(nServers, c.server)
    BY <1>2, <2>1 DEF Strays
  <2>3. /\ Len(nServers) \in Nat /\ Len(servers) = n /\ servers[n] = v
        /\ \A i \in 1..Len(nServers) : servers[i] = nServers[i]
    BY <1>1, <1>4, <1>6, AppendProperties, LenProperties
  <2>4. n \in 1..Len(servers)
    BY <2>3
  <2>5. \A j \in 1..Len(servers) : servers[j].id = servers[n].id => n <= j
    <3> SUFFICES ASSUME NEW j \in 1..Len(servers), servers[j].id = servers[n].id PROVE n <= j
      OBVIOUS
    <3>1. CASE j \in 1..Len(nServers)
      BY <1>4, <2>2, <2>3, <3>1 DEF Listed
    <3>2. CASE j \notin 1..Len(nServers)
      BY <2>3, <3>2
    <3> QED
      BY <3>1, <3>2
  <2> HIDE DEF n, v
  <2>6. Listed(servers, servers[n].id) /\ ServerOf(servers, servers[n].id) = servers[n]
    BY <2>4, <2>5, FirstRowStands
  <2>7. c.channel.room \in RoomsOf(<<c.channel>>)
    BY <1>3, SingleFacts DEF RoomsOf
  <2>8. InServer(servers, c.server, c.channel.room)
    BY <1>4, <2>3, <2>6, <2>7 DEF InServer
  <2> QED
    BY <2>8 DEF PlaceOK
<1>9. Commit(servers, c.server, c.channel.room, nDM, nPorch, nLoaded)
  BY <1>2, <1>6
<1> QED
  BY <1>2, <1>7, <1>8, <1>9, ListHolds

\* A change of channels that keeps every room keeps the place.
LEMMA PlaceKept ==
  ASSUME NEW servers \in Seq(SrvT), NEW s, NEW g \in [Chans -> Chans], NEW a, NEW ch,
         \A chans \in Chans : RoomsOf(chans) \subseteq RoomsOf(g[chans]), PlaceOK(servers, a, ch)
  PROVE  PlaceOK(MapBy(servers, s, g), a, ch)
PROOF
<1> SUFFICES ASSUME MapBy(servers, s, g) # <<>>, ch # Nowhere PROVE InServer(MapBy(servers, s, g), a, ch)
  BY DEF PlaceOK
<1>1. InServer(servers, a, ch)
  BY MapRooms DEF PlaceOK
<1>2. Listed(servers, a) /\ ch \in RoomsOf(ServerOf(servers, a).channels)
  BY <1>1 DEF InServer
<1>3. ServerOf(servers, a).channels \in Chans
  BY <1>2, ServerChannels
<1>4. Listed(MapBy(servers, s, g), a)
  BY <1>2, MapRooms
<1>5. CASE a # s
  BY <1>2, <1>4, <1>5, MapRooms DEF InServer
<1>6. CASE a = s
  <2>1. ServerOf(MapBy(servers, s, g), a).channels = g[ServerOf(servers, a).channels]
    BY <1>2, <1>6, MapRooms
  <2> QED
    BY <1>2, <1>3, <1>4, <2>1 DEF InServer
<1> QED
  BY <1>5, <1>6

\* A new channel, of whatever server; a launched app is shown.
LEMMA ChannelCreatedHolds ==
  ASSUME NavIInv, NEW c \in nCalls, createChannel(c) \/ startServerExtension(c)
  PROVE  NavIInv'
PROOF
<1>1. CallTyped(c) /\ nServers \in Seq(SrvT)
  BY NavParts
<1>2. c.op \in {"create channel", "launch"} /\ c.stage = "done" /\ Done(c)
  BY DEF createChannel, startServerExtension
<1>3. c.channel \in ChanT /\ c.channel.room \in Shown
  BY <1>1, <1>2 DEF CallTyped, ChanT, Shown, ChannelOps
<1>4. PICK g \in [Chans -> Chans] : g = Appending(c.channel)
  BY <1>3, AppendingFacts
<1>5. \A chans \in Chans : c.channel.room \in RoomsOf(g[chans]) /\ RoomsOf(chans) \subseteq RoomsOf(g[chans])
  BY <1>3, <1>4, AppendingFacts
<1>6. PICK list \in Seq(SrvT) : list = nServers
  BY <1>1
<1>7. PICK servers \in Seq(SrvT) : servers = MapBy(list, c.server, g)
  BY MapFacts
<1>8. WithNew(c) = servers
  <2>1. MapServer(list, c.server, LAMBDA chans : Append(chans, c.channel)) = MapBy(list, c.server, Appending(c.channel))
    BY <1>3, MapServerIs
  <2> QED
    BY <1>4, <1>6, <1>7, <2>1 DEF WithNew
<1>9. PICK a \in Place, shown \in Shown : a = nActive /\ shown = nChannel
  BY NavParts
<1>10. CASE createChannel(c)
  <2>1. Commit(servers, a, shown, nDM, nPorch, nLoaded)
    BY <1>8, <1>9, <1>10 DEF createChannel
  <2>2. ASSUME ~nStray' PROVE PlaceOK(servers, a, shown)
    <3>1. PlaceOK(list, a, shown)
      BY <1>2, <1>6, <1>9, <2>2, NotStrayed
    <3> QED
      BY <1>5, <1>7, <3>1, PlaceKept
  <2> QED
    BY <1>2, <2>1, <2>2, ListHolds
<1>11. CASE startServerExtension(c)
  <2>1. c.op = "launch"
    BY <1>11 DEF startServerExtension
  <2>2. PICK ch \in Shown : ch = c.channel.room
    BY <1>3
  <2>3. Commit(servers, a, ch, nDM, nPorch, nLoaded)
    BY <1>8, <1>9, <1>11, <2>2 DEF startServerExtension
  <2>4. ASSUME ~nStray', servers # <<>> PROVE PlaceOK(servers, a, ch)
    <3>1. ~Strays(c) /\ PlaceOK(list, a, shown)
      BY <1>2, <1>6, <1>9, <2>4, NotStrayed
    <3>2. c.server = a /\ Listed(list, a)
      BY <1>6, <1>9, <2>1, <3>1 DEF Strays
    <3>3. ServerOf(list, a).channels \in Chans
      BY <3>2, ServerChannels
    <3>4. /\ Listed(servers, a)
          /\ ServerOf(servers, a).channels = g[ServerOf(list, a).channels]
      BY <1>7, <3>2, MapRooms
    <3>5. InServer(servers, a, ch)
      BY <1>5, <2>2, <3>3, <3>4 DEF InServer
    <3> QED
      BY <3>5 DEF PlaceOK
  <2> QED
    BY <1>2, <2>3, <2>4, ListHolds DEF PlaceOK
<1> QED
  BY <1>10, <1>11

\* A renamed channel keeps its room.
LEMMA ChannelRenamedHolds ==
  ASSUME NavIInv, NEW c \in nCalls, renameChannel(c)
  PROVE  NavIInv'
PROOF
<1>1. CallTyped(c) /\ nServers \in Seq(SrvT)
  BY NavParts
<1>2. c.op = "rename" /\ c.stage = "done" /\ Done(c)
  BY DEF renameChannel
<1>3. c.channel \in ChanT
  BY <1>1, <1>2 DEF CallTyped, ChannelOps
<1>4. PICK g \in [Chans -> Chans] : g = Renaming(c.channel)
  BY <1>3, RenamingFacts
<1>5. \A chans \in Chans : RoomsOf(chans) \subseteq RoomsOf(g[chans])
  BY <1>3, <1>4, RenamingFacts
<1>6. PICK list \in Seq(SrvT) : list = nServers
  BY <1>1
<1>7. PICK servers \in Seq(SrvT) : servers = MapBy(list, c.server, g)
  BY MapFacts
<1>8. PICK a \in Place, shown \in Shown : a = nActive /\ shown = nChannel
  BY NavParts
<1>9. Commit(servers, a, shown, nDM, nPorch, nLoaded)
  <2>1. MapServer(list, c.server, LAMBDA chans : Renamed(chans, c.channel)) = MapBy(list, c.server, Renaming(c.channel))
    BY <1>3, MapServerIs
  <2> QED
    BY <1>4, <1>6, <1>7, <1>8, <2>1 DEF renameChannel
<1>10. ASSUME ~nStray' PROVE PlaceOK(servers, a, shown)
  <2>1. PlaceOK(list, a, shown)
    BY <1>2, <1>6, <1>8, <1>10, NotStrayed
  <2> QED
    BY <1>5, <1>7, <2>1, PlaceKept
<1> QED
  BY <1>2, <1>9, <1>10, ListHolds

\* The user is left at the first server that remains, or where they were.
LEMMA ServerDeletedHolds ==
  ASSUME NavIInv, NEW c \in nCalls, deleteServer(c)
  PROVE  NavIInv'
PROOF
<1>1. nServers \in Seq(SrvT) /\ nActive \in Place /\ nChannel \in Shown
  BY NavParts
<1>2. c.op \in {"delete server", "leave"} /\ c.stage = "done" /\ Done(c)
  BY DEF deleteServer
<1>3. PICK list \in Seq(SrvT) : list = nServers
  BY <1>1
<1>4. PICK servers : servers = Others(list, c.server)
  OBVIOUS
<1>5. /\ servers \in Seq(SrvT)
      /\ servers # <<>> => list # <<>>
      /\ \A a : Listed(list, a) /\ a # c.server =>
           Listed(servers, a) /\ ServerOf(servers, a) = ServerOf(list, a)
  BY <1>4, RemovalFacts
<1> DEFINE gone == nActive = c.server
           at == IF ~gone THEN nActive ELSE IF servers = <<>> THEN Nowhere ELSE servers[1].id
           shown == IF ~gone THEN nChannel
                    ELSE IF servers = <<>> THEN Nowhere ELSE FirstRoom(servers[1].channels)
<1>6. Commit(servers, at, shown, nDM, nPorch, nLoaded)
  BY <1>3, <1>4 DEF deleteServer, Others
<1>7. ASSUME servers # <<>>
      PROVE  /\ servers[1].id \in Place /\ FirstRoom(servers[1].channels) \in Shown
             /\ PlaceOK(servers, servers[1].id, FirstRoom(servers[1].channels))
  <2>1. /\ 1 \in 1..Len(servers) /\ Listed(servers, servers[1].id)
        /\ ServerOf(servers, servers[1].id) = servers[1]
    BY <1>5, <1>7, HeadStands
  <2>2. servers[1].id \in SrvId /\ servers[1].channels \in Chans
    BY <1>5, <2>1, ServerRows
  <2>3. /\ FirstRoom(servers[1].channels) \in RoomsOf(servers[1].channels) \cup {Nowhere}
        /\ RoomsOf(servers[1].channels) \subseteq NavRoom
    BY <2>2, OpenedAt, RoomFacts
  <2> QED
    BY <2>1, <2>2, <2>3 DEF Place, Shown, PlaceOK, InServer
<1>8. at \in Place /\ shown \in Shown /\ (~nStray' => PlaceOK(servers, at, shown))
  <2>1. CASE ~gone
    <3>1. at = nActive /\ shown = nChannel
      BY <2>1
    <3>2. ASSUME ~nStray' PROVE PlaceOK(servers, nActive, nChannel)
      <4>1. PlaceOK(nServers, nActive, nChannel)
        BY <1>2, <3>2, NotStrayed
      <4> QED
        BY <1>3, <1>5, <2>1, <4>1 DEF PlaceOK, InServer
    <3> QED
      BY <1>1, <3>1, <3>2
  <2>2. CASE gone /\ servers = <<>>
    BY <2>2 DEF Place, Shown, PlaceOK
  <2>3. CASE gone /\ servers # <<>>
    <3>1. at = servers[1].id /\ shown = FirstRoom(servers[1].channels)
      BY <2>3
    <3> QED
      BY <1>7, <2>3, <3>1
  <2> QED
    BY <2>1, <2>2, <2>3
<1>9. PICK a \in Place, ch \in Shown : a = at /\ ch = shown
  BY <1>8
<1> HIDE DEF at, shown
<1>10. Commit(servers, a, ch, nDM, nPorch, nLoaded) /\ (~nStray' => PlaceOK(servers, a, ch))
  BY <1>6, <1>8, <1>9
<1> QED
  BY <1>2, <1>5, <1>10, ListHolds

\* The list without a channel of server s, and the pane after it went.
LEMMA AfterDeleteFacts ==
  ASSUME NavIInv, NEW c, NEW list, list = MapBy(nServers, c.server, Dropping(c.channel.room))
  PROVE  /\ WithoutOld(c) = list /\ list \in Seq(SrvT) /\ AfterDelete(c) \in Shown
         /\ c.server = nActive /\ PlaceOK(nServers, nActive, nChannel) =>
              PlaceOK(list, nActive, AfterDelete(c))
PROOF
<1>0. PICK servers \in Seq(SrvT) : servers = nServers
  BY NavParts
<1>1. PICK g \in [Chans -> Chans] : g = Dropping(c.channel.room)
  BY DroppingFacts
<1>2. list = MapBy(servers, c.server, g)
  BY <1>0, <1>1
<1>3. WithoutOld(c) = list
  <2>1. \A i \in 1..Len(servers) : g[servers[i].channels] = Without(servers[i].channels, c.channel.room)
    BY <1>1, ServerRows, DroppingFacts
  <2> QED
    BY <1>0, <1>2, <2>1 DEF WithoutOld, MapServer, MapBy
<1>4. list \in Seq(SrvT)
  BY <1>2, MapFacts
<1> DEFINE chans == ServerOf(list, c.server).channels
           wasActive == nChannel # Nowhere /\ Listed(servers, c.server) /\ nChannel \notin RoomsOf(chans)
<1>5. AfterDelete(c) = IF wasActive THEN FirstRoom(chans) ELSE nChannel
  BY <1>0, <1>3 DEF AfterDelete
<1>6. /\ list = <<>> <=> servers = <<>>
      /\ Listed(list, c.server) <=> Listed(servers, c.server)
  BY <1>2, MapRooms
<1>7. ASSUME Listed(servers, c.server)
      PROVE  /\ FirstRoom(chans) \in RoomsOf(chans) \cup {Nowhere} /\ RoomsOf(chans) \subseteq NavRoom
  <2>1. chans \in Chans
    BY <1>4, <1>6, <1>7, ServerChannels
  <2> HIDE DEF chans
  <2> QED
    BY <2>1, OpenedAt, RoomFacts
<1>8. nChannel \in Shown
  BY NavParts
<1> HIDE DEF chans
<1>9. AfterDelete(c) \in Shown
  <2>1. CASE wasActive
    BY <1>5, <1>7, <2>1 DEF Shown
  <2>2. CASE ~wasActive
    BY <1>5, <1>8, <2>2
  <2> QED
    BY <2>1, <2>2
<1>10. ASSUME c.server = nActive, PlaceOK(nServers, nActive, nChannel), list # <<>>, AfterDelete(c) # Nowhere
       PROVE  InServer(list, nActive, AfterDelete(c))
  <2>1. CASE wasActive
    <3>1. Listed(list, c.server) /\ AfterDelete(c) \in RoomsOf(chans)
      BY <1>5, <1>6, <1>7, <1>10, <2>1
    <3> QED
      BY <1>10, <3>1 DEF InServer, chans
  <2>2. CASE ~wasActive
    <3>1. AfterDelete(c) = nChannel /\ nChannel # Nowhere
      BY <1>5, <1>10, <2>2
    <3>2. Listed(servers, c.server)
      BY <1>0, <1>6, <1>10, <3>1 DEF PlaceOK, InServer
    <3>3. Listed(list, c.server) /\ nChannel \in RoomsOf(chans)
      BY <1>6, <2>2, <3>1, <3>2
    <3> QED
      BY <1>10, <3>1, <3>3 DEF InServer, chans
  <2> QED
    BY <2>1, <2>2
<1> QED
  BY <1>3, <1>4, <1>9, <1>10 DEF PlaceOK

LEMMA ChannelDeletedHolds ==
  ASSUME NavIInv, NEW c \in nCalls, deleteChannel(c)
  PROVE  NavIInv'
PROOF
<1>1. /\ c.op = "delete channel" /\ c.stage = "done" /\ Done(c)
      /\ Commit(WithoutOld(c), nActive, AfterDelete(c), nDM, nPorch, nLoaded)
  BY DEF deleteChannel
<1>2. PICK list : list = MapBy(nServers, c.server, Dropping(c.channel.room))
  OBVIOUS
<1>3. /\ WithoutOld(c) = list /\ list \in Seq(SrvT) /\ AfterDelete(c) \in Shown
      /\ c.server = nActive /\ PlaceOK(nServers, nActive, nChannel) => PlaceOK(list, nActive, AfterDelete(c))
  BY <1>2, AfterDeleteFacts
<1>4. PICK a \in Place, ch \in Shown : a = nActive /\ ch = AfterDelete(c)
  BY <1>3, NavParts
<1>5. Commit(list, a, ch, nDM, nPorch, nLoaded)
  BY <1>1, <1>3, <1>4
<1>6. ASSUME ~nStray' PROVE PlaceOK(list, a, ch)
  <2>1. ~Strays(c) /\ PlaceOK(nServers, nActive, nChannel)
    BY <1>1, <1>6, NotStrayed
  <2>2. c.server = nActive
    BY <1>1, <2>1 DEF Strays
  <2> QED
    BY <1>3, <1>4, <2>1, <2>2
<1> QED
  BY <1>1, <1>3, <1>5, <1>6, ListHolds

\* An app that was stopped gives way to a text channel of the list the call was made with.
LEMMA StoppedHolds ==
  ASSUME NavIInv, NEW c \in nCalls, handleStopAppChannel(c)
  PROVE  NavIInv'
PROOF
<1> DEFINE r == c.channel.room
           old == ServerOf(c.prev, c.server).channels
           others == Where(old, LAMBDA x : x.room # r /\ ~x.app)
<1>1. /\ c.op = "stop" /\ c.stage = "done" /\ Done(c)
      /\ Commit(WithoutOld(c), nActive, IF others = <<>> THEN AfterDelete(c) ELSE others[1].room,
                nDM, nPorch, nLoaded)
  BY DEF handleStopAppChannel
<1>2. PICK list : list = MapBy(nServers, c.server, Dropping(r))
  OBVIOUS
<1>3. /\ WithoutOld(c) = list /\ list \in Seq(SrvT) /\ AfterDelete(c) \in Shown
      /\ c.server = nActive /\ PlaceOK(nServers, nActive, nChannel) => PlaceOK(list, nActive, AfterDelete(c))
  BY <1>2, AfterDeleteFacts
<1>4. c.prev \in Seq(SrvT) /\ Listed(c.prev, c.server)
  BY <1>1, NavParts DEF CallTyped, CallT
<1>5. old \in Chans
  BY <1>4, ServerChannels
<1> HIDE DEF old
<1>6. ASSUME others # <<>> PROVE \E x \in RoomsOf(old) : x # r /\ others[1].room = x
  <2> DEFINE kept == {i \in DOMAIN old : old[i].room # r /\ ~old[i].app}
             t == Picked(old, kept)
  <2>1. old \in Seq(ChanT) /\ DOMAIN old = 1..Len(old)
    BY <1>5, LenProperties DEF Chans
  <2>2. kept \subseteq DOMAIN old /\ \A i \in kept : i \in 1..Len(old) /\ old[i].room # r
    BY <2>1
  <2>3. others = t
    BY DEF Where
  <2> HIDE DEF kept, t
  <2>4. t \in Seq(ChanT) /\ \A n \in 1..Len(t) : Nth(kept, n) \in kept /\ t[n] = old[Nth(kept, n)]
    BY <2>1, <2>2, PickedFacts DEF t
  <2>5. 1 \in 1..Len(t)
    BY <1>6, <2>3, <2>4, EmptySeq, LenProperties
  <2>6. PICK i \in kept : t[1] = old[i]
    BY <2>4, <2>5
  <2>7. old[i].room \in RoomsOf(old)
    BY <1>5, <2>2, RoomFacts
  <2> QED
    BY <2>2, <2>3, <2>6, <2>7
<1> HIDE DEF others
<1>7. PICK ch : ch = IF others = <<>> THEN AfterDelete(c) ELSE others[1].room
  OBVIOUS
<1>8. ch \in Shown
  <2>1. RoomsOf(old) \subseteq Shown
    BY <1>5, RoomFacts DEF Shown
  <2> QED
    BY <1>3, <1>6, <1>7, <2>1
<1>9. PICK a \in Place : a = nActive
  BY NavParts
<1>10. Commit(list, a, ch, nDM, nPorch, nLoaded)
  BY <1>1, <1>3, <1>7, <1>9
<1>11. ASSUME ~nStray' PROVE PlaceOK(list, a, ch)
  <2>1. ~Strays(c) /\ PlaceOK(nServers, nActive, nChannel)
    BY <1>1, <1>11, NotStrayed
  <2>2. c.server = a /\ nServers = c.prev
    BY <1>1, <1>9, <2>1 DEF Strays
  <2>3. CASE others = <<>>
    BY <1>3, <1>7, <1>9, <2>1, <2>2, <2>3
  <2>4. CASE others # <<>>
    <3>1. PICK x \in RoomsOf(old) : x # r /\ ch = x
      BY <1>6, <1>7, <2>4
    <3>2. Dropping(r) \in [Chans -> Chans] /\ ch \in RoomsOf(Dropping(r)[old])
      BY <1>5, <3>1, DroppingFacts
    <3>3. PICK g \in [Chans -> Chans] : g = Dropping(r)
      BY <3>2
    <3>4. PICK servers \in Seq(SrvT) : servers = c.prev
      BY <1>4
    <3>5. list = MapBy(servers, a, g) /\ Listed(servers, a)
      BY <1>2, <1>4, <2>2, <3>3, <3>4
    <3>6. Listed(list, a) /\ ServerOf(list, a).channels = g[ServerOf(servers, a).channels]
      BY <3>5, MapRooms
    <3>7. old = ServerOf(servers, a).channels
      BY <2>2, <3>4 DEF old
    <3>8. InServer(list, a, ch)
      BY <3>2, <3>3, <3>6, <3>7 DEF InServer
    <3> QED
      BY <3>8 DEF PlaceOK
  <2> QED
    BY <2>3, <2>4
<1> QED
  BY <1>1, <1>3, <1>8, <1>10, <1>11, ListHolds

\* The order put back has the rooms of the one shown meanwhile.
LEMMA ReorderedHolds ==
  ASSUME NavIInv, NEW c \in nCalls, reorderChannels(c)
  PROVE  NavIInv'
PROOF
<1>1. /\ c.op = "reorder" /\ c.stage \in {"done", "failed"} /\ Done(c)
      /\ Commit(IF c.stage = "failed" THEN c.prev ELSE nServers, nActive, nChannel, nDM, nPorch, nLoaded)
  BY DEF reorderChannels
<1>2. c.prev \in Seq(SrvT) /\ nServers \in Seq(SrvT)
  BY NavParts DEF CallTyped, CallT
<1>3. PICK servers \in Seq(SrvT) : servers = IF c.stage = "failed" THEN c.prev ELSE nServers
  BY <1>2
<1>4. PICK a \in Place, ch \in Shown : a = nActive /\ ch = nChannel
  BY NavParts
<1>5. Commit(servers, a, ch, nDM, nPorch, nLoaded)
  BY <1>1, <1>3, <1>4
<1>6. ASSUME ~nStray' PROVE PlaceOK(servers, a, ch)
  <2>1. ~Strays(c) /\ PlaceOK(nServers, nActive, nChannel)
    BY <1>1, <1>6, NotStrayed
  <2>2. CASE c.stage # "failed"
    BY <1>3, <1>4, <2>1, <2>2
  <2>3. CASE c.stage = "failed"
    <3>1. nServers = MapServer(c.prev, c.server, Reverse) /\ servers = c.prev
      BY <1>1, <1>3, <2>1, <2>3 DEF Strays
    <3>2. PICK g \in [Chans -> Chans] : g = Reversing
      BY ReversingFacts
    <3>3. \A chans \in Chans : RoomsOf(g[chans]) = RoomsOf(chans)
      BY <3>2, ReversingFacts
    <3>4. nServers = MapBy(servers, c.server, g)
      <4>1. \A i \in 1..Len(servers) : g[servers[i].channels] = Reverse(servers[i].channels)
        BY <3>2, ServerRows, ReversingFacts
      <4> QED
        BY <3>1, <4>1 DEF MapServer, MapBy
    <3> SUFFICES ASSUME servers # <<>>, ch # Nowhere PROVE InServer(servers, a, ch)
      BY DEF PlaceOK
    <3>5. InServer(MapBy(servers, c.server, g), a, ch)
      BY <1>4, <2>1, <3>4, MapRooms DEF PlaceOK
    <3>6. Listed(servers, a)
      BY <3>5, MapRooms DEF InServer
    <3>7. ServerOf(servers, a).channels \in Chans
      BY <3>6, ServerChannels
    <3>8. CASE a # c.server
      BY <3>5, <3>6, <3>8, MapRooms DEF InServer
    <3>9. CASE a = c.server
      <4>1. ServerOf(MapBy(servers, c.server, g), a).channels = g[ServerOf(servers, a).channels]
        BY <3>6, <3>9, MapRooms
      <4> QED
        BY <3>3, <3>5, <3>6, <3>7, <4>1 DEF InServer
    <3> QED
      BY <3>8, <3>9
  <2> QED
    BY <2>2, <2>3
<1> QED
  BY <1>1, <1>5, <1>6, ListHolds

LEMMA ReorderAskedHolds ==
  ASSUME NavIInv, AskReorder
  PROVE  NavIInv'
PROOF
<1>1. nServers \in Seq(SrvT) /\ CallsCounted
  BY NavParts
<1>2. /\ Ask(Call("reorder", nActive, NoChannel)) /\ Listed(nServers, nActive)
      /\ Commit(MapServer(nServers, nActive, Reverse), nActive, nChannel, nDM, nPorch, nLoaded)
      /\ nBackend' = nBackend /\ nReloads' = nReloads /\ nStray' = nStray
  BY DEF AskReorder
<1>3. PICK list \in Seq(SrvT) : list = nServers
  BY <1>1
<1>4. PICK a \in Place, ch \in Shown : a = nActive /\ ch = nChannel
  BY NavParts
<1>5. PICK g \in [Chans -> Chans] : g = Reversing
  BY ReversingFacts
<1>6. PICK servers \in Seq(SrvT) : servers = MapBy(list, a, g)
  BY MapFacts
<1>7. PICK c : c = Call("reorder", a, NoChannel)
  OBVIOUS
<1>8. c = [id |-> nSent, op |-> "reorder", server |-> a, channel |-> NoChannel, boot |-> FALSE,
           prev |-> list, stage |-> "sent", value |-> <<>>]
  BY <1>3, <1>7 DEF Call
<1>9. nSent < MaxCalls /\ nCalls' = nCalls \cup {c} /\ nSent' = nSent + 1
  BY <1>2, <1>4, <1>7 DEF Ask
<1>10. a \in SrvId
  BY <1>2, <1>3, <1>4, ServerChannels
<1>11. CallTyped(c)
  <2>1. PICK n \in Nat : n = nSent
    BY <1>1 DEF CallsCounted
  <2>2. PICK t \in AnyChan : t = NoChannel
    BY DEF NoChannel, Chan, Place, AnyChan
  <2>3. c = [id |-> n, op |-> "reorder", server |-> a, channel |-> t, boot |-> FALSE,
             prev |-> list, stage |-> "sent", value |-> <<>>]
    BY <1>8, <2>1, <2>2
  <2>4. <<>> \in Seq(SrvT)
    BY EmptySeq
  <2>5. c \in CallT /\ c.op = "reorder" /\ c.server = a /\ c.prev = list
    BY <2>3, <2>4 DEF CallT, Ops
  <2> QED
    BY <1>2, <1>3, <1>4, <1>10, <2>5 DEF CallTyped, ChannelOps
<1>12. PICK dm \in BOOLEAN, porch \in BOOLEAN : dm = nDM /\ porch = nPorch
  BY NavParts
<1>13. PICK loaded \in Loads : loaded = nLoaded
  BY NavParts
<1>14. MapServer(nServers, nActive, Reverse) = servers
  <2>1. \A i \in 1..Len(list) : Reversing[list[i].channels] = Reverse(list[i].channels)
    BY ServerRows, ReversingFacts
  <2> QED
    BY <1>3, <1>4, <1>5, <1>6, <2>1 DEF MapServer, MapBy
<1>15. Commit(servers, a, ch, dm, porch, loaded)
  BY <1>2, <1>4, <1>12, <1>13, <1>14
<1>16. CallsTyped'
  BY <1>2, <1>9, <1>11, NavParts DEF CallsTyped
<1>17. CallsCounted'
  BY <1>2, <1>9, CountsAsked
<1>18. ASSUME ~nStray' PROVE PlaceOK(servers, a, ch)
  <2>1. PlaceOK(list, a, ch)
    BY <1>2, <1>3, <1>4, <1>18, NavParts
  <2>2. \A chans \in Chans : RoomsOf(chans) \subseteq RoomsOf(g[chans])
    BY <1>5, ReversingFacts
  <2> QED
    BY <1>6, <2>1, <2>2, PlaceKept
<1>19. nStray' \in BOOLEAN
  BY <1>2, NavParts
<1> QED
  BY <1>15, <1>16, <1>17, <1>18, <1>19, CommitHolds

-----------------------------------------------------------------------------
(***************************************************************************)
(* The page.                                                               *)
(***************************************************************************)

LEMMA BootHolds ==
  ASSUME NavIInv, Boot
  PROVE  NavIInv'
PROOF
<1>1. CallsCounted /\ <<>> \in Seq(SrvT)
  BY NavParts, EmptySeq
<1>2. PICK c : c = [Call("load", Nowhere, NoChannel) EXCEPT !.boot = TRUE]
  OBVIOUS
<1>3. /\ nLoaded = "mounted" /\ nLoaded' = "loading" /\ nCalls' = nCalls \cup {c} /\ nSent' = nSent + 1
      /\ UNCHANGED <<nServers, place, nRestored, nStray>> /\ nBackend' = nBackend /\ nReloads' = nReloads
  BY <1>2 DEF Boot
<1>4. CallTyped(c)
  <2>1. PICK n \in Nat : n = nSent
    BY <1>1 DEF CallsCounted
  <2>2. PICK t \in AnyChan : t = NoChannel
    BY DEF NoChannel, Chan, Place, AnyChan
  <2>3. c = [id |-> n, op |-> "load", server |-> Nowhere, channel |-> t, boot |-> TRUE,
             prev |-> <<>>, stage |-> "sent", value |-> <<>>]
    BY <1>2, <2>1, <2>2 DEF Call
  <2>4. c \in CallT /\ c.op = "load"
    BY <1>1, <2>3 DEF CallT, Ops, Place
  <2> QED
    BY <2>4 DEF CallTyped, ChannelOps
<1>5. CallsTyped'
  BY <1>3, <1>4, NavParts DEF CallsTyped
<1>6. CallsCounted'
  <2>1. MaxCalls \in Nat /\ MaxReloads \in Nat
    BY NavigationAssumption
  <2> QED
    BY <1>1, <1>3, <2>1 DEF CallsCounted
<1>7. nLoaded' \in Loads
  BY <1>3 DEF Loads
<1> QED
  BY <1>3, <1>5, <1>6, <1>7, KeepHolds

LEMMA SettledHolds ==
  ASSUME NavIInv, BootSettled
  PROVE  NavIInv'
PROOF
<1>1. /\ Commit(nServers, nActive, nChannel, nDM, nPorch, "loaded")
      /\ nCalls' = nCalls /\ nSent' = nSent /\ nBackend' = nBackend /\ nReloads' = nReloads
      /\ nStray' = nStray
  BY DEF BootSettled
<1>2. PICK servers \in Seq(SrvT), a \in Place, ch \in Shown : servers = nServers /\ a = nActive /\ ch = nChannel
  BY NavParts
<1>3. PICK dm \in BOOLEAN, porch \in BOOLEAN : dm = nDM /\ porch = nPorch
  BY NavParts
<1>4. PICK loaded \in Loads : loaded = "loaded"
  BY DEF Loads
<1>5. Commit(servers, a, ch, dm, porch, loaded)
  BY <1>1, <1>2, <1>3, <1>4
<1>6. CallsTyped'
  BY <1>1, NavParts DEF CallsTyped
<1>7. nLoaded' = loaded
  BY <1>5, Zenon DEF Commit
<1>8. CallsCounted'
  BY <1>1, <1>4, <1>7, CountsKept
<1>9. nStray' \in BOOLEAN /\ (~nStray' => PlaceOK(servers, a, ch))
  BY <1>1, <1>2, NavParts
<1> QED
  BY <1>5, <1>6, <1>8, <1>9, CommitHolds

\* The cleanup touches neither the list nor the place.
LEMMA SameHolds ==
  ASSUME NavIInv, UNCHANGED <<nServers, place, nLoaded, nRestored, nCalls, nSent, nBackend, nReloads, nStray>>
  PROVE  NavIInv'
PROOF
<1>1. /\ UNCHANGED <<nServers, place, nRestored, nStray>> /\ nLoaded' = nLoaded
      /\ nCalls' = nCalls /\ nSent' = nSent /\ nBackend' = nBackend /\ nReloads' = nReloads
  OBVIOUS
<1>2. CallsTyped'
  BY <1>1, NavParts DEF CallsTyped
<1>3. CallsCounted'
  BY <1>1, CountsKept
<1>4. nLoaded' \in Loads
  BY <1>1, NavParts
<1> QED
  BY <1>1, <1>2, <1>3, <1>4, KeepHolds

\* An empty store shows nothing.
LEMMA EmptiedTypes ==
  ASSUME NavIInv, resetState, nDM' \in BOOLEAN, nPorch' \in BOOLEAN, nIn' \in BOOLEAN, nRestored' \in BOOLEAN,
         nLoaded' \in Loads
  PROVE  StoreTyped' /\ nStray' \in BOOLEAN /\ PlaceOK(nServers', nActive', nChannel')
PROOF
<1>1. nServers' = <<>> /\ nActive' = Nowhere /\ nChannel' = Nowhere /\ nNative' = nNative /\ nStray' = FALSE
  BY DEF resetState
<1>2. nServers' \in Seq(SrvT) /\ nActive' \in Place /\ nChannel' \in NavRoom \cup {Nowhere}
  BY <1>1, EmptySeq DEF Place
<1>3. nNative' \in BOOLEAN
  BY <1>1, NavParts, Zenon DEF StoreTyped
<1>4. StoreTyped'
  BY <1>2, <1>3, Zenon DEF StoreTyped, Loads
<1>5. PlaceOK(nServers', nActive', nChannel')
  BY <1>1 DEF PlaceOK
<1> QED
  BY <1>1, <1>4, <1>5

LEMMA ReloadHolds ==
  ASSUME NavIInv, ReloadPage
  PROVE  NavIInv'
PROOF
<1>1. /\ resetState /\ nDM' = FALSE /\ nPorch' = nNative /\ nLoaded' = "mounted" /\ nRestored' = FALSE
      /\ nCalls' = {} /\ nSent' = 0 /\ nIn' = nIn /\ nReloads < MaxReloads /\ nReloads' = nReloads + 1
  BY DEF ReloadPage
<1>2. nServers' = <<>> /\ nActive' = Nowhere /\ nChannel' = Nowhere /\ nBackend' = nBackend /\ nNative' = nNative
  BY <1>1 DEF resetState
<1>3. StoreTyped /\ CallsCounted /\ CallsTyped /\ nIn \in BOOLEAN
  BY NavParts
<1>4. nDM' \in BOOLEAN /\ nPorch' \in BOOLEAN /\ nIn' \in BOOLEAN /\ nRestored' \in BOOLEAN
  BY <1>1, <1>3, Zenon DEF StoreTyped
<1>5. StoreTyped' /\ nStray' \in BOOLEAN /\ PlaceOK(nServers', nActive', nChannel')
  BY <1>1, <1>4, EmptiedTypes DEF Loads
<1>6. CallsTyped'
  BY <1>1, <1>2, <1>3 DEF CallsTyped
<1>7. CallsCounted'
  <2>1. MaxCalls \in Nat /\ MaxReloads \in Nat
    BY NavigationAssumption
  <2> QED
    BY <1>1, <1>3, <2>1 DEF CallsCounted
<1>8. OneSurface'
  BY <1>1, <1>2, Zenon DEF OneSurface
<1> QED
  BY <1>1, <1>5, <1>6, <1>7, <1>8, Zenon DEF NavIInv, NavTyped

LEMMA LogoutHolds ==
  ASSUME NavIInv, Logout
  PROVE  NavIInv'
PROOF
<1>1. /\ resetState /\ nIn' = FALSE
      /\ nLoaded' = IF nNative /\ nLoaded = "loaded" THEN nLoaded ELSE "mounted"
      /\ nRestored' = (nNative /\ nRestored) /\ nCalls' = Orphaned
      /\ nDM' = nDM /\ nPorch' = nPorch /\ nSent' = nSent /\ nReloads < MaxReloads /\ nReloads' = nReloads + 1
  BY DEF Logout
<1>2. nServers' = <<>> /\ nActive' = Nowhere /\ nChannel' = Nowhere /\ nBackend' = nBackend
  BY <1>1 DEF resetState
<1>3. StoreTyped /\ CallsCounted /\ CallsTyped /\ OneSurface /\ nLoaded \in Loads
      /\ nDM \in BOOLEAN /\ nPorch \in BOOLEAN /\ \A c \in nCalls : CallTyped(c)
  BY NavParts
<1>4. nDM' \in BOOLEAN /\ nPorch' \in BOOLEAN /\ nIn' \in BOOLEAN /\ nRestored' \in BOOLEAN
  BY <1>1, <1>3, Zenon DEF StoreTyped
<1>5. nLoaded' \in Loads
  BY <1>1, <1>3 DEF Loads
<1>6. StoreTyped' /\ nStray' \in BOOLEAN /\ PlaceOK(nServers', nActive', nChannel')
  BY <1>1, <1>4, <1>5, EmptiedTypes
<1>7. CallsTyped'
  <2>1. ASSUME NEW c \in nCalls PROVE CallTyped([c EXCEPT !.boot = FALSE])
    <3>1. CallTyped(c) /\ c \in CallT
      BY <1>3 DEF CallTyped
    <3>2. PICK d : d = [c EXCEPT !.boot = FALSE]
      OBVIOUS
    <3>3. d \in CallT /\ d.op = c.op /\ d.server = c.server /\ d.channel = c.channel /\ d.prev = c.prev
      BY <3>1, <3>2 DEF CallT
    <3>4. CallTyped(d)
      BY <3>1, <3>3 DEF CallTyped
    <3> QED
      BY <3>2, <3>4
  <2>2. \A d \in nCalls' : CallTyped(d)
    BY <1>1, <2>1 DEF Orphaned
  <2> QED
    BY <1>2, <1>3, <2>2 DEF CallsTyped
<1>8. CallsCounted'
  <2>1. MaxCalls \in Nat /\ MaxReloads \in Nat
    BY NavigationAssumption
  <2> QED
    BY <1>1, <1>3, <2>1 DEF CallsCounted
<1>9. OneSurface'
  BY <1>1, <1>2, <1>3, Zenon DEF OneSurface
<1> QED
  BY <1>1, <1>6, <1>7, <1>8, <1>9, Zenon DEF NavIInv, NavTyped

LEMMA LoginHolds ==
  ASSUME NavIInv, Login
  PROVE  NavIInv'
PROOF
<1>1. /\ ~nIn /\ resetState /\ nIn' = TRUE /\ nLoaded' = nLoaded /\ nRestored' = nRestored
      /\ nCalls' = nCalls /\ nDM' = nDM /\ nPorch' = nPorch /\ nSent' = nSent /\ nReloads' = nReloads
  BY DEF Login
<1>2. nServers' = <<>> /\ nActive' = Nowhere /\ nChannel' = Nowhere /\ nBackend' = nBackend
  BY <1>1 DEF resetState
<1>3. StoreTyped /\ OneSurface /\ nLoaded \in Loads
  BY NavParts
<1>4. nDM' \in BOOLEAN /\ nPorch' \in BOOLEAN /\ nIn' \in BOOLEAN /\ nRestored' \in BOOLEAN
  BY <1>1, <1>3, Zenon DEF StoreTyped
<1>5. StoreTyped' /\ nStray' \in BOOLEAN /\ PlaceOK(nServers', nActive', nChannel')
  BY <1>1, <1>3, <1>4, EmptiedTypes
<1>6. CallsTyped'
  BY <1>1, <1>2, NavParts DEF CallsTyped
<1>8. CallsCounted'
  BY <1>1, CountsKept
<1>7. OneSurface'
  BY <1>1, <1>2, <1>3, Zenon DEF OneSurface
<1> QED
  BY <1>5, <1>6, <1>7, <1>8, Zenon DEF NavIInv, NavTyped

-----------------------------------------------------------------------------
(***************************************************************************)
(* The invariant.                                                          *)
(***************************************************************************)

\* The user starts with nothing shown, a member of the lobby or of nothing.
LEMMA NavInitHolds ==
  ASSUME NavigationInit
  PROVE  NavIInv
PROOF
<1>1. /\ nServers = <<>> /\ nActive = Nowhere /\ nChannel = Nowhere /\ nDM = FALSE
      /\ nNative \in BOOLEAN /\ nPorch = nNative /\ nIn = TRUE
      /\ nLoaded = "mounted" /\ nRestored = FALSE /\ nCalls = {} /\ nSent = 0 /\ nReloads = 0
      /\ nStray = FALSE
  BY DEF NavigationInit
<1>2. Lobby \in SrvId /\ MaxCalls \in Nat /\ MaxReloads \in Nat
  BY NavigationAssumption
<1>3. nServers \in Seq(SrvT) /\ nActive \in Place /\ nChannel \in NavRoom \cup {Nowhere}
  BY <1>1, EmptySeq DEF Place
<1>4. StoreTyped
  <2>1. nDM \in BOOLEAN /\ nPorch \in BOOLEAN /\ nNative \in BOOLEAN /\ nIn \in BOOLEAN /\ nRestored \in BOOLEAN
    <3>1. nNative \in BOOLEAN /\ nPorch = nNative /\ nDM = FALSE /\ nIn = TRUE /\ nRestored = FALSE
      BY DEF NavigationInit
    <3>2. nPorch \in BOOLEAN
      BY <3>1, Zenon
    <3>3. nDM \in BOOLEAN /\ nIn \in BOOLEAN /\ nRestored \in BOOLEAN
      BY <3>1
    <3> QED
      BY <3>1, <3>2, <3>3, Zenon
  <2>2. nLoaded \in {"mounted", "loading", "settling", "loaded"}
    BY <1>1
  <2> QED
    BY <1>3, <2>1, <2>2, Zenon DEF StoreTyped
<1>5. CallsCounted
  BY <1>1, <1>2 DEF CallsCounted
<1>6. BackendTyped(<<>>)
  <2>1. DOMAIN <<>> = {} /\ <<>> \in [{} -> Chans]
    BY EmptySeq, LenProperties
  <2>2. IsFiniteSet({})
    BY FS_EmptySet
  <2> QED
    BY <2>1, <2>2 DEF BackendTyped
<1>7. BackendTyped(nBackend)
  <2>1. CASE nBackend = <<>>
    BY <1>6, <2>1
  <2>2. ASSUME NEW c \in ChanT, NEW b \in NavRoom,
               nBackend = Including(<<>>, Lobby, <<c, Chan(b, "welcome")>>)
        PROVE  BackendTyped(nBackend)
    <3>1. Chan(b, "welcome") \in ChanT
      BY DEF Chan, ChanT
    <3>2. <<c, Chan(b, "welcome")>> \in Chans
      BY <3>1 DEF Chans
    <3> QED
      BY <1>2, <1>6, <2>2, <3>2, MembershipTypes
  <2>3. \A a \in NavRoom : Chan(a, "other") \in ChanT /\ AppChan(a) \in ChanT
    BY DEF Chan, AppChan, ChanT
  <2>4. nBackend = <<>> \/ \E c \in ChanT, b \in NavRoom :
          nBackend = Including(<<>>, Lobby, <<c, Chan(b, "welcome")>>)
    BY <2>3, Zenon DEF NavigationInit
  <2> QED
    BY <2>1, <2>2, <2>4
<1>8. CallsTyped
  BY <1>1, <1>7 DEF CallsTyped
<1>9. OneSurface
  BY <1>1, Zenon DEF OneSurface
<1>10. PlaceOK(nServers, nActive, nChannel) /\ nStray \in BOOLEAN
  BY <1>1 DEF PlaceOK
<1> QED
  BY <1>4, <1>5, <1>8, <1>9, <1>10, Zenon DEF NavIInv, NavTyped

LEMMA AnswersHold ==
  ASSUME NavIInv, NEW c \in nCalls, Answer(c)
  PROVE  NavIInv'
PROOF
<1>1. ASSUME loadServers(c) PROVE NavIInv'
  BY <1>1, JoiningHolds, LoadedHolds
<1>2. ASSUME Joined(c) PROVE NavIInv'
  BY <1>2, JoinedHolds, EndedHolds
<1>3. ASSUME Toasted(c) PROVE NavIInv'
  BY <1>3, EndedHolds
<1> QED
  BY <1>1, <1>2, <1>3, ServerCreatedHolds, ChannelCreatedHolds, ServerDeletedHolds, ChannelDeletedHolds, StoppedHolds,
     ChannelRenamedHolds, ReorderedHolds DEF Answer

\* Every step of the store, the server and the page.
LEMMA NavStepHolds ==
  ASSUME NavIInv, [NavigationNext]_navigationVars
  PROVE  NavIInv'
PROOF
<1>1. CASE UNCHANGED navigationVars
  BY <1>1, SameHolds DEF navigationVars, place
<1>2. ASSUME leaveOrphanRooms \/ CleanedUp \/ \E r \in NavRoom, ok \in BOOLEAN : LeaveRoom(r, ok)
      PROVE  NavIInv'
  BY <1>2, SameHolds DEF leaveOrphanRooms, CleanedUp, LeaveRoom
<1>3. {"create channel", "launch", "delete channel", "rename"} = ChannelOps
  BY DEF ChannelOps
<1>4. ASSUME NEW s \in SrvId,
             \/ handleServerClick(s) \/ AskJoin(s)
             \/ AskRemoveServer("delete server", s) \/ AskRemoveServer("leave", s)
             \/ \E r \in NavRoom : AskCreateServer(s, r)
      PROVE  NavIInv'
  BY <1>4, ServerClickHolds, CallsHold
<1>5. ASSUME NEW r \in NavRoom,
             \/ handleChannelClick(r)
             \/ AskChannel("create channel", r, "other") \/ AskChannel("launch", r, "other")
             \/ AskChannel("delete channel", r, "other")
             \/ \E name \in {"welcome", "other"} : AskChannel("rename", r, name)
             \/ \E ok \in BOOLEAN : LeaveRoom(r, ok)
      PROVE  NavIInv'
  <2>1. ASSUME NEW op \in ChannelOps, NEW name \in {"welcome", "other"}, AskChannel(op, r, name) PROVE NavIInv'
    BY <2>1, CallsHold
  <2>2. CASE handleChannelClick(r)
    BY <2>2, OtherClicksHold
  <2>3. CASE \E ok \in BOOLEAN : LeaveRoom(r, ok)
    BY <1>2, <2>3
  <2> QED
    BY <1>3, <1>5, <2>1, <2>2, <2>3
<1>6. ASSUME NEW c \in nCalls, ServeCall(c) \/ RefuseCall(c) \/ Answer(c)
      PROVE  NavIInv'
  BY <1>6, ServedHolds, RefusedHolds, AnswersHold
<1>7. ASSUME \/ Boot \/ BootSettled \/ handleDMClick \/ openLocal \/ AskReorder \/ AskStop
             \/ ReloadPage \/ Logout \/ Login \/ AskLoad(Nowhere)
      PROVE  NavIInv'
  BY <1>7, BootHolds, SettledHolds, OtherClicksHold, ReorderAskedHolds, ReloadHolds, LogoutHolds, LoginHolds,
     CallsHold
<1> QED
  BY <1>1, <1>2, <1>4, <1>5, <1>6, <1>7 DEF NavigationNext

\* The invariant holds throughout.
LEMMA NavAlways ==
  NavigationSpec => []NavIInv
PROOF
<1>1. NavigationInit => NavIInv
  BY NavInitHolds
<1>2. NavIInv /\ [NavigationNext]_navigationVars => NavIInv'
  BY NavStepHolds
<1> QED
  BY <1>1, <1>2, PTL DEF NavigationSpec

LEMMA NavigationTyped == NavIInv => NavigationTypeOK
PROOF
<1> SUFFICES ASSUME NavIInv PROVE NavigationTypeOK
  OBVIOUS
<1>1. StoreTyped /\ CallsCounted /\ nServers \in Seq(SrvT)
  BY NavParts
<1>2. ASSUME NEW i \in 1..Len(nServers)
      PROVE  /\ nServers[i].id \in SrvId
             /\ ToSet(nServers[i].channels) \subseteq [room : NavRoom, name : {"welcome", "other"}, app : BOOLEAN]
  <2>1. nServers[i].id \in SrvId /\ nServers[i].channels \in Seq(ChanT)
    BY <1>1, ServerRows DEF Chans
  <2>2. ToSet(nServers[i].channels) \subseteq ChanT
    BY <2>1, LenProperties, ElementOfSeq DEF ToSet
  <2> QED
    BY <2>1, <2>2 DEF ChanT
<1>3. nActive \in SrvId \cup {Nowhere} /\ nChannel \in NavRoom \cup {Nowhere}
  BY <1>1 DEF StoreTyped, Place
<1>4. {nDM, nPorch, nNative, nIn, nRestored, nStray} \subseteq BOOLEAN
  <2>1. nDM \in BOOLEAN /\ nPorch \in BOOLEAN /\ nNative \in BOOLEAN /\ nIn \in BOOLEAN /\ nRestored \in BOOLEAN
    BY <1>1, Zenon DEF StoreTyped
  <2> QED
    BY <2>1, NavParts
<1>5. nLoaded \in {"mounted", "loading", "settling", "loaded"}
  BY <1>1, Zenon DEF StoreTyped
<1>6. nSent \in 0..MaxCalls + MaxReloads + 1 /\ nReloads \in 0..MaxReloads
  BY <1>1, NavigationAssumption DEF CallsCounted
<1> QED
  BY <1>2, <1>3, <1>4, <1>5, <1>6, Zenon DEF NavigationTypeOK

\* The list of servers and the place in it stay well formed (stores/server.ts).
THEOREM NavigationTypes == NavigationSpec => []NavigationTypeOK
PROOF
<1> QED BY NavigationTyped, NavAlways, PTL

\* Whatever calls and clicks overlap, the channel shown is one of the server beside it: after
\* every click, answer, failure, rollback, restored place and reload, unless an answer strayed
\* since the user moved or the list was loaded (stores/server.ts, ChatLayout.tsx).
THEOREM ChannelIsOfServer == NavigationSpec => []ChannelOfActiveServer
PROOF
<1>1. NavIInv => ChannelOfActiveServer
  <2> SUFFICES ASSUME NavIInv, nServers # <<>>, nChannel # Nowhere, ~nStray
               PROVE  InServer(nServers, nActive, nChannel)
    BY DEF ChannelOfActiveServer
  <2>1. PlaceOK(nServers, nActive, nChannel)
    BY NavParts
  <2> QED
    BY <2>1 DEF PlaceOK
<1> QED
  BY <1>1, NavAlways, PTL

\* The porch and a Matrix place are never shown together, overlapping operations or not
\* (ChatLayout.tsx).
THEOREM PorchIsAlone == NavigationSpec => []OneSurface
PROOF
<1>1. NavIInv => OneSurface
  BY NavParts
<1> QED
  BY <1>1, NavAlways, PTL

-----------------------------------------------------------------------------
(***************************************************************************)
(* The messages of a room: what a list looked up in a timeline keeps when  *)
(* the timeline is trimmed.                                                *)
(***************************************************************************)

EventT ==
  [id : Nat, kind : {"message", "edit", "reaction", "state"}, of : Nat, by : Member,
   body : Body \cup {Blank}, gone : BOOLEAN]

\* What edits or reacts comes after what it is about.
FollowUps(t) == \A i, j \in DOMAIN t : t[i].of = t[j].id => j < i

\* The newest events of a timeline end as it does.
LEMMA NewestEnds ==
  ASSUME NEW S, NEW t \in Seq(S), NEW n \in Nat
  PROVE  /\ Newest(t, n) \in Seq(S) /\ EndsAlike(Newest(t, n), t)
         /\ Len(Newest(t, n)) = IF Len(t) > n THEN n ELSE Len(t)
PROOF
<1>1. Len(t) \in Nat
  OBVIOUS
<1>2. CASE Len(t) > n
  <2> DEFINE u == SubSeq(t, Len(t) - n + 1, Len(t))
  <2>1. /\ u \in Seq(S) /\ Len(u) = n
        /\ \A i \in 1..n : u[i] = t[Len(t) - n + i]
    <3>1. Len(t) - n + 1 \in 1..Len(t) + 1 /\ Len(t) \in (Len(t) - n + 1) - 1 .. Len(t)
      BY <1>1, <1>2
    <3>2. \A i \in (Len(t) - n + 1) .. Len(t) : t[i] \in S
      BY <1>1, <1>2
    <3>3. u = [i \in 1..n |-> t[i + (Len(t) - n + 1) - 1]]
      BY <1>1, <1>2 DEF u
    <3>4. \A i \in 1..n : i + (Len(t) - n + 1) - 1 = Len(t) - n + i /\ Len(t) - n + i \in 1..Len(t)
      BY <1>1, <1>2
    <3>5. \A i \in 1..n : t[i + (Len(t) - n + 1) - 1] \in S
      BY <3>4
    <3> HIDE DEF u
    <3>6. u \in [1..n -> S]
      BY <3>3, <3>5
    <3>7. u \in Seq(S) /\ Len(u) = n
      BY <3>6
    <3> QED BY <3>3, <3>4, <3>7
  <2>2. Newest(t, n) = u
    BY <1>2 DEF Newest
  <2> HIDE DEF u
  <2> QED BY <1>1, <1>2, <2>1, <2>2 DEF EndsAlike
<1>3. CASE ~(Len(t) > n)
  <2>1. Newest(t, n) = t
    BY <1>3 DEF Newest
  <2> QED BY <1>1, <1>3, <2>1 DEF EndsAlike
<1> QED BY <1>2, <1>3

\* Of two ends of a list, the shorter is an end of the longer.
LEMMA EndsOfOne ==
  ASSUME NEW S, NEW t \in Seq(S), NEW a \in Seq(S), NEW b \in Seq(S),
         EndsAlike(a, t), EndsAlike(b, t), Len(b) <= Len(a)
  PROVE  EndsAlike(b, a)
PROOF
<1>1. Len(a) \in Nat /\ Len(b) \in Nat /\ Len(t) \in Nat /\ Len(a) <= Len(t)
  BY DEF EndsAlike
<1>2. ASSUME NEW i \in 1..Len(b) PROVE b[i] = a[Len(a) - Len(b) + i]
  <2>1. Len(a) - Len(b) + i \in 1..Len(a)
    BY <1>1
  <2>2. Len(t) - Len(a) + (Len(a) - Len(b) + i) = Len(t) - Len(b) + i
    BY <1>1
  <2>3. a[Len(a) - Len(b) + i] = t[Len(t) - Len(a) + (Len(a) - Len(b) + i)]
    BY <2>1 DEF EndsAlike
  <2>4. b[i] = t[Len(t) - Len(b) + i]
    BY DEF EndsAlike
  <2> QED BY <2>2, <2>3, <2>4
<1> QED BY <1>2 DEF EndsAlike

\* The positions after those cut off.
LEMMA EndPositions ==
  ASSUME NEW S, NEW t \in Seq(S), NEW u \in Seq(S), EndsAlike(u, t)
  PROVE  /\ Len(t) - Len(u) \in 0..Len(t) /\ Len(t) - (Len(t) - Len(u)) = Len(u)
         /\ DOMAIN u = 1..Len(u) /\ DOMAIN t = 1..Len(t)
         /\ Len(u) \in Nat /\ Len(t) \in Nat
         /\ \A i \in 1..Len(u) : u[i] = t[i + (Len(t) - Len(u))] /\ i + (Len(t) - Len(u)) \in 1..Len(t)
PROOF
<1>1. Len(u) \in Nat /\ Len(t) \in Nat /\ Len(u) <= Len(t)
  BY DEF EndsAlike
<1>2. \A i \in 1..Len(u) : /\ Len(t) - Len(u) + i = i + (Len(t) - Len(u))
                           /\ i + (Len(t) - Len(u)) \in 1..Len(t)
  BY <1>1
<1>3. \A i \in 1..Len(u) : u[i] = t[Len(t) - Len(u) + i]
  BY DEF EndsAlike
<1>4. Len(t) - Len(u) \in 0..Len(t) /\ Len(t) - (Len(t) - Len(u)) = Len(u)
  BY <1>1
<1>5. DOMAIN u = 1..Len(u) /\ DOMAIN t = 1..Len(t)
  OBVIOUS
<1> QED BY <1>1, <1>2, <1>3, <1>4, <1>5

EditPlaces(t, id) == {i \in DOMAIN t : ~t[i].gone /\ t[i].kind = "edit" /\ t[i].of = id}

LEMMA EditsPicked ==
  ASSUME NEW t, NEW id
  PROVE  Edits(t, id) = Picked(t, EditPlaces(t, id))
PROOF
  BY DEF Edits, Where, EditPlaces

\* A message that is left keeps its edits.
LEMMA EditsKept ==
  ASSUME NEW t \in Seq(EventT), FollowUps(t), NEW u \in Seq(EventT), EndsAlike(u, t), NEW j \in 1..Len(u)
  PROVE  Edits(u, u[j].id) = Edits(t, u[j].id)
PROOF
<1> DEFINE k == Len(t) - Len(u)
           N == Len(t)
           id == u[j].id
           kept == EditPlaces(t, id)
           late == EditPlaces(u, id)
<1>1. /\ k \in 0..N /\ N - k = Len(u) /\ DOMAIN u = 1..Len(u) /\ DOMAIN t = 1..N /\ N \in Nat
      /\ \A i \in 1..Len(u) : u[i] = t[i + k] /\ i + k \in 1..N
  BY EndPositions
<1>2. \A i \in kept : i > k
  <2> SUFFICES ASSUME NEW i \in kept PROVE i > k
    OBVIOUS
  <2>1. i \in DOMAIN t /\ t[i].of = id
    BY DEF EditPlaces
  <2>2. j + k \in DOMAIN t /\ t[j + k].id = id
    BY <1>1
  <2>3. j + k < i
    BY <2>1, <2>2 DEF FollowUps
  <2>4. j \in Nat \ {0} /\ k \in Nat /\ i \in Nat
    BY <1>1, <2>1
  <2> QED BY <2>3, <2>4
<1>3. kept \subseteq 1..N /\ Later(kept, k, N) = late
  <2>1. kept \subseteq 1..N
    BY <1>1 DEF EditPlaces
  <2>2. \A i \in 1..Len(u) : i + k \in kept <=> ~u[i].gone /\ u[i].kind = "edit" /\ u[i].of = id
    BY <1>1 DEF EditPlaces
  <2>3. Later(kept, k, N) = {i \in 1..Len(u) : i + k \in kept}
    BY <1>1 DEF Later
  <2>4. late = {i \in 1..Len(u) : ~u[i].gone /\ u[i].kind = "edit" /\ u[i].of = id}
    BY <1>1 DEF EditPlaces
  <2> HIDE DEF late, kept, k, id
  <2> QED BY <2>1, <2>2, <2>3, <2>4
<1>4. /\ Cardinality(late) \in Nat /\ late \subseteq 1..Len(u)
      /\ Cardinality(kept) - Cardinality(late) = 0
      /\ \A n \in 1..Cardinality(late) :
           Nth(kept, n + (Cardinality(kept) - Cardinality(late))) = Nth(late, n) + k
  <2> HIDE DEF kept, late, k, N
  <2> QED BY <1>1, <1>2, <1>3, PickedTail, ZenonT(40)
<1>5. Cardinality(kept) \in Nat
  <2> HIDE DEF kept
  <2> QED BY <1>1, <1>3, KeptFinite
<1>6. Cardinality(kept) = Cardinality(late)
  <2> HIDE DEF kept, late
  <2> QED BY <1>4, <1>5
<1>7. \A n \in 1..Cardinality(late) : Nth(late, n) \in late
  <2> HIDE DEF late
  <2>1. Len(u) \in Nat
    OBVIOUS
  <2> QED BY <1>4, <2>1, NthFacts
<1>8. \A n \in 1..Cardinality(late) : u[Nth(late, n)] = t[Nth(kept, n)]
  <2> HIDE DEF late, kept, k
  <2> SUFFICES ASSUME NEW n \in 1..Cardinality(late)
               PROVE  u[Nth(late, n)] = t[Nth(kept, n)]
    OBVIOUS
  <2>1. Nth(late, n) \in 1..Len(u)
    BY <1>4, <1>7
  <2>2. n + (Cardinality(kept) - Cardinality(late)) = n
    BY <1>4
  <2>3. Nth(kept, n) = Nth(late, n) + k
    BY <1>4, <2>2
  <2> QED BY <1>1, <2>1, <2>3
<1>9. Picked(u, late) = Picked(t, kept)
  <2> HIDE DEF late, kept
  <2> QED BY <1>6, <1>8 DEF Picked
<1>10. Edits(u, id) = Picked(u, late) /\ Edits(t, id) = Picked(t, kept)
  BY EditsPicked
<1> QED BY <1>9, <1>10

ReactionPlaces(t, id) == {j \in DOMAIN t : ~t[j].gone /\ t[j].kind = "reaction" /\ t[j].of = id}

\* A message that is left keeps its reactions.
LEMMA ReactionsKept ==
  ASSUME NEW t \in Seq(EventT), FollowUps(t), NEW u \in Seq(EventT), EndsAlike(u, t), NEW j \in 1..Len(u)
  PROVE  Reactions(u, u[j].id) = Reactions(t, u[j].id)
PROOF
<1> DEFINE k == Len(t) - Len(u)
           id == u[j].id
           T == {t[i] : i \in ReactionPlaces(t, id)}
           U == {u[i] : i \in ReactionPlaces(u, id)}
<1>1. /\ k \in 0..Len(t) /\ Len(t) - k = Len(u) /\ DOMAIN u = 1..Len(u) /\ DOMAIN t = 1..Len(t)
      /\ Len(t) \in Nat /\ Len(u) \in Nat
      /\ \A i \in 1..Len(u) : u[i] = t[i + k] /\ i + k \in 1..Len(t)
  BY EndPositions
<1>2. \A i \in ReactionPlaces(u, id) : i + k \in ReactionPlaces(t, id) /\ u[i] = t[i + k]
  BY <1>1 DEF ReactionPlaces
<1>3. ASSUME NEW i \in ReactionPlaces(t, id)
      PROVE  \E l \in ReactionPlaces(u, id) : t[i] = u[l]
  <2>1. i \in DOMAIN t /\ t[i].of = id
    BY DEF ReactionPlaces
  <2>2. j + k \in DOMAIN t /\ t[j + k].id = id
    BY <1>1
  <2>3. j + k < i
    BY <2>1, <2>2 DEF FollowUps
  <2>4. i - k \in 1..Len(u) /\ (i - k) + k = i
    BY <1>1, <2>1, <2>3
  <2>5. u[i - k] = t[i]
    BY <1>1, <2>4
  <2>6. i - k \in ReactionPlaces(u, id)
    BY <1>1, <2>4, <2>5 DEF ReactionPlaces
  <2> QED BY <2>5, <2>6
<1>4. T = U
  <2> HIDE DEF k, id
  <2> QED BY <1>2, <1>3
<1>5. Reactions(u, id) = {e.by : e \in U} /\ Reactions(t, id) = {e.by : e \in T}
  BY DEF Reactions, ReactionPlaces
<1> HIDE DEF T, U
<1> QED BY <1>4, <1>5

\* So it is listed as before.
LEMMA MessageKept ==
  ASSUME NEW t \in Seq(EventT), FollowUps(t), NEW u \in Seq(EventT), EndsAlike(u, t), NEW j \in 1..Len(u)
  PROVE  Message(u, u[j]) = Message(t, u[j])
PROOF
<1>1. Edits(u, u[j].id) = Edits(t, u[j].id)
  BY EditsKept
<1>2. Reactions(u, u[j].id) = Reactions(t, u[j].id)
  BY ReactionsKept
<1> QED BY <1>1, <1>2, Zenon DEF Message

ListedPlaces(t) == {i \in DOMAIN t : Listable(t[i])}
Extract(t) == [n \in 1..Cardinality(ListedPlaces(t)) |-> Message(t, t[Nth(ListedPlaces(t), n)])]
KeyOf(m) == <<m.id, m.redacted, m.edited, m.body.length, Cardinality(m.reactions)>>

\* A function over an interval from 1 on is a sequence.
Numbered(f) == \E n \in Nat : DOMAIN f = 1..n /\ f = [i \in 1..n |-> f[i]]

LEMMA ListedSeq ==
  ASSUME NEW f, Numbered(f), NEW S, \A i \in DOMAIN f : f[i] \in S
  PROVE  f \in Seq(S)
PROOF
<1>1. PICK n \in Nat : DOMAIN f = 1..n /\ f = [i \in 1..n |-> f[i]]
  BY DEF Numbered
<1>2. f \in [1..n -> S]
  BY <1>1
<1> QED BY <1>2

LEMMA ListedLen ==
  ASSUME NEW f, Numbered(f), NEW n \in Nat, DOMAIN f = 1..n
  PROVE  Len(f) = n
PROOF
<1>1. f \in Seq({f[i] : i \in DOMAIN f})
  BY ListedSeq
<1> QED BY <1>1

\* Suffixes of lists whose elements are nothing in particular.
LEMMA ListedSuffix ==
  ASSUME NEW f, NEW g, Numbered(f), Numbered(g)
  PROVE  IsSuffix(f, g) <=> EndsAlike(f, g)
PROOF
<1> DEFINE S == {f[i] : i \in DOMAIN f} \cup {g[i] : i \in DOMAIN g}
<1>1. f \in Seq(S) /\ g \in Seq(S)
  <2>1. (\A i \in DOMAIN f : f[i] \in S) /\ \A i \in DOMAIN g : g[i] \in S
    OBVIOUS
  <2> HIDE DEF S
  <2> QED BY <2>1, ListedSeq
<1> HIDE DEF S
<1> QED BY <1>1, SuffixFacts

LEMMA ListedTransitive ==
  ASSUME NEW f, NEW g, NEW h, Numbered(f), Numbered(g), Numbered(h), EndsAlike(f, g), EndsAlike(g, h)
  PROVE  EndsAlike(f, h)
PROOF
<1> DEFINE S == {f[i] : i \in DOMAIN f} \cup {g[i] : i \in DOMAIN g} \cup {h[i] : i \in DOMAIN h}
<1>1. f \in Seq(S) /\ g \in Seq(S) /\ h \in Seq(S)
  <2>1. (\A i \in DOMAIN f : f[i] \in S) /\ (\A i \in DOMAIN g : g[i] \in S) /\ \A i \in DOMAIN h : h[i] \in S
    OBVIOUS
  <2> HIDE DEF S
  <2> QED BY <2>1, ListedSeq
<1> HIDE DEF S
<1> QED BY <1>1, EndsAlikeTransitive

\* What is extracted, and its key.
LEMMA ExtractFacts ==
  ASSUME NEW t \in Seq(EventT)
  PROVE  /\ extractMessages(t) = Extract(Newest(t, MaxTail))
         /\ Cardinality(ListedPlaces(t)) \in Nat
         /\ DOMAIN Extract(t) = 1..Cardinality(ListedPlaces(t))
         /\ DOMAIN IdsKey(Extract(t)) = 1..Cardinality(ListedPlaces(t))
         /\ Numbered(IdsKey(Extract(t)))
         /\ \A n \in 1..Cardinality(ListedPlaces(t)) :
              IdsKey(Extract(t))[n] = KeyOf(Message(t, t[Nth(ListedPlaces(t), n)]))
PROOF
<1>1. ASSUME NEW a
      PROVE  [i \in DOMAIN Where(a, Listable) |-> Message(a, Where(a, Listable)[i])] = Extract(a)
  <2>1. Where(a, Listable) = Picked(a, ListedPlaces(a))
    BY DEF Where, ListedPlaces
  <2>2. Picked(a, ListedPlaces(a)) = [n \in 1..Cardinality(ListedPlaces(a)) |-> a[Nth(ListedPlaces(a), n)]]
    BY DEF Picked
  <2> QED BY <2>1, <2>2 DEF Extract
<1>2. extractMessages(t) = Extract(Newest(t, MaxTail))
  BY <1>1, Zenon DEF extractMessages
<1>3. Cardinality(ListedPlaces(t)) \in Nat
  <2>1. ListedPlaces(t) \subseteq 1..Len(t) /\ Len(t) \in Nat
    BY DEF ListedPlaces
  <2> QED BY <2>1, KeptFinite
<1>4. DOMAIN Extract(t) = 1..Cardinality(ListedPlaces(t))
  BY DEF Extract
<1>5. \A n \in 1..Cardinality(ListedPlaces(t)) : Extract(t)[n] = Message(t, t[Nth(ListedPlaces(t), n)])
  BY DEF Extract
<1>6. IdsKey(Extract(t)) = [n \in 1..Cardinality(ListedPlaces(t)) |-> KeyOf(Extract(t)[n])]
  BY <1>4, Zenon DEF IdsKey, KeyOf
<1>7. DOMAIN IdsKey(Extract(t)) = 1..Cardinality(ListedPlaces(t))
  BY <1>6
<1>8. \A n \in 1..Cardinality(ListedPlaces(t)) : IdsKey(Extract(t))[n] = KeyOf(Extract(t)[n])
  BY <1>6
<1>9. Numbered(IdsKey(Extract(t)))
  BY <1>3, <1>6, <1>7, <1>8 DEF Numbered
<1> QED BY <1>2, <1>3, <1>4, <1>5, <1>7, <1>8, <1>9

\* The end of a timeline lists the end of what the timeline lists.
LEMMA KeysOfEnd ==
  ASSUME NEW t \in Seq(EventT), FollowUps(t), NEW u \in Seq(EventT), EndsAlike(u, t)
  PROVE  EndsAlike(IdsKey(Extract(u)), IdsKey(Extract(t)))
PROOF
<1> DEFINE k == Len(t) - Len(u)
           N == Len(t)
           kept == ListedPlaces(t)
           late == ListedPlaces(u)
           f == IdsKey(Extract(u))
           g == IdsKey(Extract(t))
           m == Cardinality(kept) - Cardinality(late)
<1>1. /\ k \in 0..N /\ N - k = Len(u) /\ DOMAIN u = 1..Len(u) /\ DOMAIN t = 1..N /\ N \in Nat
      /\ \A i \in 1..Len(u) : u[i] = t[i + k] /\ i + k \in 1..N
  BY EndPositions
<1>2. kept \subseteq 1..N /\ Later(kept, k, N) = late
  <2>1. kept \subseteq 1..N
    BY <1>1 DEF ListedPlaces
  <2>2. \A i \in 1..Len(u) : i + k \in kept <=> Listable(u[i])
    BY <1>1 DEF ListedPlaces
  <2>3. Later(kept, k, N) = {i \in 1..Len(u) : i + k \in kept}
    BY <1>1 DEF Later
  <2>4. late = {i \in 1..Len(u) : Listable(u[i])}
    BY <1>1 DEF ListedPlaces
  <2> HIDE DEF late, kept, k
  <2> QED BY <2>1, <2>2, <2>3, <2>4
<1>3. /\ Cardinality(late) \in Nat /\ late \subseteq 1..Len(u) /\ m \in Nat
      /\ \A n \in 1..Cardinality(late) : n + m \in 1..Cardinality(kept) /\ Nth(kept, n + m) = Nth(late, n) + k
  <2> HIDE DEF kept, late, k, N
  <2> QED BY <1>1, <1>2, PickedTail, ZenonT(40)
<1>4. Cardinality(kept) \in Nat
  <2> HIDE DEF kept
  <2> QED BY <1>1, <1>2, KeptFinite
<1>5. \A n \in 1..Cardinality(late) : Nth(late, n) \in 1..Len(u)
  <2> HIDE DEF late
  <2>1. Len(u) \in Nat
    OBVIOUS
  <2> QED BY <1>3, <2>1, NthFacts
<1>6. /\ Numbered(f) /\ DOMAIN f = 1..Cardinality(late)
      /\ \A n \in 1..Cardinality(late) : f[n] = KeyOf(Message(u, u[Nth(late, n)]))
      /\ Numbered(g) /\ DOMAIN g = 1..Cardinality(kept)
      /\ \A n \in 1..Cardinality(kept) : g[n] = KeyOf(Message(t, t[Nth(kept, n)]))
  BY ExtractFacts
<1> HIDE DEF k, kept, late, f, g
<1>7. ASSUME NEW n \in 1..Cardinality(late)
      PROVE  f[n] = g[m + n]
  <2>1. Nth(late, n) \in 1..Len(u) /\ n + m \in 1..Cardinality(kept) /\ Nth(kept, n + m) = Nth(late, n) + k
    BY <1>3, <1>5
  <2>2. u[Nth(late, n)] = t[Nth(kept, n + m)]
    BY <1>1, <2>1
  <2>3. Message(u, u[Nth(late, n)]) = Message(t, u[Nth(late, n)])
    BY <2>1, MessageKept
  <2>4. f[n] = KeyOf(Message(t, t[Nth(kept, n + m)]))
    BY <1>6, <2>2, <2>3
  <2>5. g[n + m] = KeyOf(Message(t, t[Nth(kept, n + m)]))
    BY <1>6, <2>1
  <2>6. n + m = m + n
    BY <1>3
  <2> QED BY <2>4, <2>5, <2>6
<1>8. Len(f) = Cardinality(late) /\ Len(g) = Cardinality(kept)
  BY <1>3, <1>4, <1>6, ListedLen
<1>9. Cardinality(late) <= Cardinality(kept)
  BY <1>3, <1>4 DEF m
<1>10. EndsAlike(f, g)
  BY <1>7, <1>8, <1>9 DEF EndsAlike, m
<1> QED BY <1>10 DEF f, g

\* The list of messages is one, whose key is the one that is kept; the timer
\* that runs is for the room on the screen.
HookOK ==
  /\ rRoom \in MsgRoom \cup {NoRoom} /\ rKnown \subseteq MsgRoom
  /\ rTimer \in {NoRoom, rRoom} /\ rPaginating \in BOOLEAN /\ rHasMore \in BOOLEAN
  /\ rKey = IdsKey(rShown) /\ Numbered(rKey)

\* Timelines hold events of the count, and older ones that edit nothing.
Ids == (1..rCount) \cup {MaxEvents + 1, MaxEvents + 2}
Timely(t) ==
  /\ t \in Seq(EventT) /\ FollowUps(t)
  /\ \A i \in DOMAIN t : t[i].id \in Ids /\ t[i].of \in Ids \cup {0}
TimelinesOK ==
  /\ rCount \in 0..MaxEvents
  /\ rTimeline \in [MsgRoom -> Seq(EventT)] /\ \A r \in MsgRoom : Timely(rTimeline[r])
  /\ rOlder \in [MsgRoom -> Seq(EventT)]
  /\ \A r \in MsgRoom : \A i \in DOMAIN rOlder[r] : rOlder[r][i].id \in Ids /\ rOlder[r][i].of = 0

KeysShown(t) == EndsAlike(IdsKey(extractMessages(t)), rKey)
ListShows == rTimer = NoRoom /\ rRoom \in rKnown => KeysShown(rTimeline[rRoom])

MessagesIInv == HookOK /\ TimelinesOK /\ ListShows

\* What is extracted from a timeline that is as it should be.
LEMMA ExtractedList ==
  ASSUME NEW t \in Seq(EventT)
  PROVE  Numbered(IdsKey(extractMessages(t))) /\ EndsAlike(IdsKey(extractMessages(t)), IdsKey(extractMessages(t)))
PROOF
<1> DEFINE u == Newest(t, MaxTail)
           f == IdsKey(Extract(u))
<1>1. u \in Seq(EventT)
  BY MessagesAssumption, NewestEnds
<1> HIDE DEF u
<1>2. /\ Numbered(f) /\ Cardinality(ListedPlaces(u)) \in Nat /\ DOMAIN f = 1..Cardinality(ListedPlaces(u))
  BY <1>1, ExtractFacts
<1>3. extractMessages(t) = Extract(u)
  BY ExtractFacts DEF u
<1> HIDE DEF f
<1>4. Len(f) = Cardinality(ListedPlaces(u))
  BY <1>2, ListedLen
<1>5. EndsAlike(f, f)
  BY <1>2, <1>4 DEF EndsAlike
<1> QED BY <1>2, <1>3, <1>5 DEF f

\* The end of a timeline, too, has what edits after what is edited.
LEMMA EndFollowUps ==
  ASSUME NEW t \in Seq(EventT), FollowUps(t), NEW u \in Seq(EventT), EndsAlike(u, t)
  PROVE  FollowUps(u)
PROOF
<1> DEFINE k == Len(t) - Len(u)
<1>1. /\ k \in 0..Len(t) /\ DOMAIN u = 1..Len(u) /\ DOMAIN t = 1..Len(t)
      /\ \A i \in 1..Len(u) : u[i] = t[i + k] /\ i + k \in 1..Len(t)
  BY EndPositions
<1> HIDE DEF k
<1>2. ASSUME NEW i \in 1..Len(u), NEW j \in 1..Len(u), u[i].of = u[j].id
      PROVE  j < i
  <2>1. t[i + k].of = t[j + k].id
    BY <1>1, <1>2
  <2>2. j + k < i + k
    BY <1>1, <2>1 DEF FollowUps
  <2> QED BY <1>1, <2>2
<1> QED BY <1>1, <1>2 DEF FollowUps

\* Trimming a timeline leaves the end of its list.
LEMMA TrimmedList ==
  ASSUME NEW t \in Seq(EventT), FollowUps(t)
  PROVE  EndsAlike(IdsKey(extractMessages(Newest(t, MaxTimeline))), IdsKey(extractMessages(t)))
PROOF
<1> DEFINE s == Newest(t, MaxTimeline)
           u == Newest(s, MaxTail)
           v == Newest(t, MaxTail)
<1>0. MaxTimeline \in Nat /\ MaxTail \in Nat
  BY MessagesAssumption
<1>1. /\ s \in Seq(EventT) /\ EndsAlike(s, t)
      /\ Len(s) = IF Len(t) > MaxTimeline THEN MaxTimeline ELSE Len(t)
  BY <1>0, NewestEnds
<1> HIDE DEF s
<1>2. u \in Seq(EventT) /\ EndsAlike(u, s) /\ Len(u) = IF Len(s) > MaxTail THEN MaxTail ELSE Len(s)
  BY <1>0, <1>1, NewestEnds
<1>3. v \in Seq(EventT) /\ EndsAlike(v, t) /\ Len(v) = IF Len(t) > MaxTail THEN MaxTail ELSE Len(t)
  BY <1>0, NewestEnds
<1> HIDE DEF u, v
<1>4. EndsAlike(u, t)
  BY <1>1, <1>2, EndsAlikeTransitive
<1>5. Len(u) <= Len(v)
  <2>1. Len(t) \in Nat /\ Len(s) \in Nat
    BY <1>1
  <2> QED BY <1>0, <1>1, <1>2, <1>3, <2>1
<1>6. EndsAlike(u, v)
  BY <1>2, <1>3, <1>4, <1>5, EndsOfOne
<1>7. FollowUps(v)
  BY <1>3, EndFollowUps
<1>8. EndsAlike(IdsKey(Extract(u)), IdsKey(Extract(v)))
  BY <1>2, <1>3, <1>6, <1>7, KeysOfEnd
<1>9. extractMessages(s) = Extract(u)
  BY <1>1, ExtractFacts DEF u
<1>10. extractMessages(t) = Extract(v)
  BY ExtractFacts DEF v
<1> QED BY <1>8, <1>9, <1>10 DEF s

\* An extraction shows the timeline it reads.
LEMMA ExtractShows ==
  ASSUME NEW r \in rKnown', Extracts(r), rTimeline'[r] \in Seq(EventT), rKey = IdsKey(rShown), Numbered(rKey)
  PROVE  KeysShown(rTimeline[r])' /\ (rKey = IdsKey(rShown) /\ Numbered(rKey))'
PROOF
<1> DEFINE f == IdsKey(extractMessages(rTimeline'[r]))
<1>1. Numbered(f) /\ EndsAlike(f, f)
  BY ExtractedList
<1>2. /\ rKey' = f
      /\ rShown' = extractMessages(rTimeline'[r]) \/ UNCHANGED <<rShown, rKey>>
  BY DEF Extracts
<1>3. (rKey = IdsKey(rShown))'
  BY <1>2, Zenon
<1> QED BY <1>1, <1>2, <1>3 DEF KeysShown

\* Of an unknown room it leaves the list alone.
LEMMA ExtractKeeps ==
  ASSUME NEW r, Extracts(r), rTimeline'[r] \in Seq(EventT), rKey = IdsKey(rShown), Numbered(rKey)
  PROVE  (rKey = IdsKey(rShown) /\ Numbered(rKey))' /\ (r \in rKnown' => KeysShown(rTimeline[r])')
PROOF
<1>1. CASE r \in rKnown'
  BY <1>1, ExtractShows
<1>2. CASE r \notin rKnown'
  BY <1>2 DEF Extracts
<1> QED BY <1>1, <1>2

\* Ids are of a later count, too; an event at the end has a new one.
LEMMA TimelyLater ==
  ASSUME NEW t, Timely(t), rCount \in 0..MaxEvents, rCount' \in {rCount, rCount + 1}
  PROVE  Timely(t)'
PROOF
<1>1. rCount \in Nat
  BY MessagesAssumption
<1>2. \A n \in 1..rCount : n \in 1..rCount'
  BY <1>1
<1>3. \A i \in Ids : i \in Ids'
  BY <1>2 DEF Ids
<1> QED BY <1>3 DEF Timely

LEMMA TimelyAppend ==
  ASSUME NEW t, Timely(t), rCount \in 0..MaxEvents, rCount < MaxEvents, rCount' = rCount + 1,
         NEW e \in EventT, e.id = rCount + 1, e.of = 0 \/ \E i \in DOMAIN t : e.of = t[i].id
  PROVE  Timely(Append(t, e))' /\ Append(t, e) \in Seq(EventT)
PROOF
<1> DEFINE u == Append(t, e)
<1>0. /\ t \in Seq(EventT) /\ FollowUps(t) /\ Len(t) \in Nat /\ DOMAIN t = 1..Len(t)
      /\ \A i \in DOMAIN t : t[i].id \in Ids /\ t[i].of \in Ids \cup {0}
  BY DEF Timely
<1>1. /\ u \in Seq(EventT) /\ Len(u) = Len(t) + 1 /\ DOMAIN u = 1..Len(t)+1
      /\ \A i \in 1..Len(t) : u[i] = t[i]
      /\ u[Len(t) + 1] = e
  BY <1>0
<1>2. rCount \in Nat /\ MaxEvents \in Nat
  BY MessagesAssumption
<1>3. Ids \subseteq Ids' /\ e.id \in Ids' /\ e.id \notin Ids \cup {0}
  <2>1. \A n \in 1..rCount : n \in 1..rCount' /\ n # rCount + 1
    BY <1>2
  <2>2. rCount + 1 \in 1..rCount' /\ rCount + 1 # MaxEvents + 1 /\ rCount + 1 # MaxEvents + 2 /\ rCount + 1 # 0
    BY <1>2
  <2> QED BY <2>1, <2>2 DEF Ids
<1>4. e.of \in Ids \cup {0} /\ e.of # e.id
  BY <1>0, <1>3
<1> HIDE DEF u
<1>5. \A i \in DOMAIN u : u[i].id \in Ids' /\ u[i].of \in Ids' \cup {0}
  <2> SUFFICES ASSUME NEW i \in DOMAIN u PROVE u[i].id \in Ids' /\ u[i].of \in Ids' \cup {0}
    OBVIOUS
  <2>1. i \in 1..Len(t) \/ i = Len(t) + 1
    BY <1>0, <1>1
  <2> QED BY <1>0, <1>1, <1>3, <1>4, <2>1
<1>6. FollowUps(u)
  <2> SUFFICES ASSUME NEW i \in DOMAIN u, NEW j \in DOMAIN u, u[i].of = u[j].id PROVE j < i
    BY DEF FollowUps
  <2>1. i \in 1..Len(t) \/ i = Len(t) + 1
    BY <1>0, <1>1
  <2>2. j \in 1..Len(t) \/ j = Len(t) + 1
    BY <1>0, <1>1
  <2>3. CASE i \in 1..Len(t) /\ j \in 1..Len(t)
    BY <1>0, <1>1, <2>3 DEF FollowUps
  <2>4. CASE j = Len(t) + 1
    <3>1. u[j].id = e.id
      BY <1>1, <2>4
    <3>2. u[i].of \in Ids \cup {0}
      BY <1>0, <1>1, <1>4, <2>1
    <3> QED BY <1>3, <3>1, <3>2
  <2>5. CASE i = Len(t) + 1 /\ j \in 1..Len(t)
    BY <1>0, <2>5
  <2> QED BY <2>1, <2>2, <2>3, <2>4, <2>5
<1>7. Timely(u)'
  BY <1>1, <1>5, <1>6 DEF Timely
<1> QED BY <1>1, <1>7 DEF u

\* An older event at the front edits nothing.
LEMMA TimelyPrepend ==
  ASSUME NEW t, Timely(t), NEW e \in EventT, e.id \in Ids, e.of = 0, rCount \in 0..MaxEvents
  PROVE  Timely(<<e>> \o t) /\ <<e>> \o t \in Seq(EventT)
PROOF
<1> DEFINE u == <<e>> \o t
<1>0. /\ t \in Seq(EventT) /\ FollowUps(t) /\ Len(t) \in Nat /\ DOMAIN t = 1..Len(t)
      /\ \A i \in DOMAIN t : t[i].id \in Ids /\ t[i].of \in Ids \cup {0}
  BY DEF Timely
<1>1. /\ u \in Seq(EventT) /\ Len(u) = 1 + Len(t) /\ DOMAIN u = 1..1+Len(t)
      /\ u[1] = e
      /\ \A i \in 1..Len(t) : u[i + 1] = t[i]
  <2>1. u \in Seq(EventT) /\ Len(u) = 1 + Len(t) /\ u[1] = e /\ \A i \in 1..Len(t) : u[i + 1] = t[i]
    BY <1>0, FrontElement
  <2> HIDE DEF u
  <2>2. DOMAIN u = 1..1+Len(t)
    BY <2>1
  <2> QED BY <2>1, <2>2
<1>2. 0 \notin Ids
  BY MessagesAssumption DEF Ids
<1> HIDE DEF u
<1>3. ASSUME NEW i \in DOMAIN u
      PROVE  i = 1 \/ (i - 1 \in 1..Len(t) /\ u[i] = t[i - 1])
  <2>1. i = 1 \/ (i - 1 \in 1..Len(t) /\ (i - 1) + 1 = i)
    BY <1>0, <1>1
  <2> QED BY <1>1, <2>1
<1>4. \A i \in DOMAIN u : u[i].id \in Ids /\ u[i].of \in Ids \cup {0}
  <2> SUFFICES ASSUME NEW i \in DOMAIN u PROVE u[i].id \in Ids /\ u[i].of \in Ids \cup {0}
    OBVIOUS
  <2>1. CASE i = 1
    BY <1>1, <2>1
  <2>2. CASE i - 1 \in 1..Len(t) /\ u[i] = t[i - 1]
    BY <1>0, <2>2
  <2> QED BY <1>3, <2>1, <2>2
<1>5. FollowUps(u)
  <2> SUFFICES ASSUME NEW i \in DOMAIN u, NEW j \in DOMAIN u, u[i].of = u[j].id PROVE j < i
    BY DEF FollowUps
  <2>0. i \in Nat /\ j \in Nat
    BY <1>0, <1>1
  <2>1. i # 1
    BY <1>1, <1>2, <1>4
  <2>2. i - 1 \in 1..Len(t) /\ u[i] = t[i - 1]
    BY <1>3, <2>1
  <2>3. CASE j = 1
    BY <2>0, <2>2, <2>3
  <2>4. CASE j - 1 \in 1..Len(t) /\ u[j] = t[j - 1]
    <3>1. t[i - 1].of = t[j - 1].id
      BY <2>2, <2>4
    <3>2. j - 1 < i - 1
      BY <1>0, <2>2, <2>4, <3>1 DEF FollowUps
    <3> QED BY <2>0, <3>2
  <2> QED BY <1>3, <2>3, <2>4
<1>6. Timely(u)
  BY <1>1, <1>4, <1>5 DEF Timely
<1> QED BY <1>1, <1>6 DEF u

\* A redacted event has its id and its relation as before.
Redacted(t, i) == [t EXCEPT ![i].gone = TRUE]
LEMMA TimelyRedacted ==
  ASSUME NEW t, Timely(t), NEW i \in DOMAIN t
  PROVE  Timely(Redacted(t, i)) /\ Redacted(t, i) \in Seq(EventT)
PROOF
<1> DEFINE u == Redacted(t, i)
<1>0. /\ t \in Seq(EventT) /\ FollowUps(t) /\ Len(t) \in Nat /\ DOMAIN t = 1..Len(t)
      /\ \A j \in DOMAIN t : t[j] \in EventT /\ t[j].id \in Ids /\ t[j].of \in Ids \cup {0}
  BY DEF Timely
<1>1. [t[i] EXCEPT !.gone = TRUE] \in EventT
  BY <1>0 DEF EventT
<1>2. /\ u \in Seq(EventT) /\ DOMAIN u = DOMAIN t
      /\ \A j \in DOMAIN t : u[j] = IF j = i THEN [t[i] EXCEPT !.gone = TRUE] ELSE t[j]
  BY <1>0, <1>1 DEF Redacted
<1>a. PICK red : red = [t[i] EXCEPT !.gone = TRUE]
  OBVIOUS
<1>b. red.id = t[i].id /\ red.of = t[i].of
  BY <1>0, <1>a DEF EventT
<1>c. \A j \in DOMAIN t : u[j] = IF j = i THEN red ELSE t[j]
  BY <1>2, <1>a
<1>3. \A j \in DOMAIN t : u[j].id = t[j].id /\ u[j].of = t[j].of
  BY <1>b, <1>c
<1> HIDE DEF u
<1>4. FollowUps(u)
  BY <1>0, <1>2, <1>3 DEF FollowUps
<1>5. Timely(u)
  BY <1>0, <1>2, <1>3, <1>4 DEF Timely
<1> QED BY <1>2, <1>5 DEF u

LEMMA TimelyTrimmed ==
  ASSUME NEW t, Timely(t)
  PROVE  Timely(Newest(t, MaxTimeline)) /\ Newest(t, MaxTimeline) \in Seq(EventT)
PROOF
<1> DEFINE u == Newest(t, MaxTimeline)
<1>1. t \in Seq(EventT) /\ FollowUps(t)
  BY DEF Timely
<1>2. u \in Seq(EventT) /\ EndsAlike(u, t)
  BY <1>1, MessagesAssumption, NewestEnds
<1> HIDE DEF u
<1>3. FollowUps(u)
  BY <1>1, <1>2, EndFollowUps
<1>4. \A i \in DOMAIN u : \E j \in DOMAIN t : u[i] = t[j]
  <2>1. DOMAIN u = 1..Len(u) /\ DOMAIN t = 1..Len(t)
    BY <1>1, <1>2
  <2>2. \A i \in 1..Len(u) : u[i] = t[i + (Len(t) - Len(u))] /\ i + (Len(t) - Len(u)) \in 1..Len(t)
    BY <1>1, <1>2, EndPositions
  <2> QED BY <2>1, <2>2
<1>5. Timely(u)
  BY <1>2, <1>3, <1>4 DEF Timely
<1> QED BY <1>2, <1>5 DEF u

-----------------------------------------------------------------------------
(***************************************************************************)
(* The messages of a room: the steps.                                      *)
(***************************************************************************)

LEMMA OlderLater ==
  ASSUME rCount \in 0..MaxEvents, rCount' \in {rCount, rCount + 1}
  PROVE  Ids \subseteq Ids'
PROOF
<1>1. rCount \in Nat
  BY MessagesAssumption
<1>2. \A n \in 1..rCount : n \in 1..rCount'
  BY <1>1
<1> QED BY <1>2 DEF Ids

\* One timeline is replaced.
LEMMA ReplacedTimeline ==
  ASSUME TimelinesOK, NEW r \in MsgRoom, NEW x, Timely(x)', x \in Seq(EventT),
         rTimeline' = [rTimeline EXCEPT ![r] = x],
         rCount' \in {rCount, rCount + 1}, rCount' \in 0..MaxEvents,
         rOlder' \in [MsgRoom -> Seq(EventT)],
         \A s \in MsgRoom : \A i \in DOMAIN rOlder'[s] : rOlder'[s][i].id \in Ids /\ rOlder'[s][i].of = 0
  PROVE  TimelinesOK'
PROOF
<1>1. rTimeline' \in [MsgRoom -> Seq(EventT)]
  BY DEF TimelinesOK
<1>2. Ids \subseteq Ids'
  BY OlderLater DEF TimelinesOK
<1>3. \A s \in MsgRoom : rTimeline'[s] = IF s = r THEN x ELSE rTimeline[s]
  BY DEF TimelinesOK
<1>4. ASSUME NEW s \in MsgRoom PROVE Timely(rTimeline[s])'
  <2>1. PICK t \in Seq(EventT) : t = rTimeline[s]
    BY DEF TimelinesOK
  <2>2. Timely(t)'
    BY <2>1, TimelyLater DEF TimelinesOK
  <2>3. rTimeline'[s] = x \/ rTimeline'[s] = t
    BY <1>3, <2>1
  <2>4. CASE rTimeline'[s] = x
    BY <2>4 DEF Timely
  <2>5. CASE rTimeline'[s] = t
    BY <2>2, <2>5 DEF Timely
  <2> QED BY <2>3, <2>4, <2>5
<1>5. \A s \in MsgRoom : \A i \in DOMAIN rOlder'[s] : rOlder'[s][i].id \in Ids' /\ rOlder'[s][i].of = 0
  BY <1>2
<1> QED BY <1>1, <1>4, <1>5 DEF TimelinesOK

LEMMA SameTimelines ==
  ASSUME TimelinesOK, UNCHANGED <<rTimeline, rOlder, rCount>>
  PROVE  TimelinesOK'
PROOF
<1>1. Ids' = Ids
  BY DEF Ids
<1>2. \A r \in MsgRoom : Timely(rTimeline[r]) => Timely(rTimeline[r])'
  BY <1>1 DEF Timely
<1> QED BY <1>1, <1>2 DEF TimelinesOK

\* A new event comes at the end of its timeline.
LEMMA GrownTimeline ==
  ASSUME TimelinesOK, NEW r \in MsgRoom, NEW e \in EventT, Grown(r, e), e.id = rCount + 1,
         e.of = 0 \/ \E i \in DOMAIN rTimeline[r] : e.of = rTimeline[r][i].id, UNCHANGED rOlder
  PROVE  TimelinesOK'
PROOF
<1>1. PICK t \in Seq(EventT) : t = rTimeline[r]
  BY DEF TimelinesOK
<1>2. /\ Timely(t) /\ rCount \in 0..MaxEvents /\ rCount < MaxEvents /\ rCount' = rCount + 1
      /\ e.of = 0 \/ \E i \in DOMAIN t : e.of = t[i].id
  BY <1>1 DEF TimelinesOK, Grown
<1>3. Timely(Append(t, e))' /\ Append(t, e) \in Seq(EventT)
  BY <1>2, TimelyAppend
<1>4. PICK x \in Seq(EventT) : x = Append(t, e)
  BY <1>3
<1>5. Timely(x)'
  BY <1>3, <1>4
<1>6. rTimeline' = [rTimeline EXCEPT ![r] = x]
  BY <1>1, <1>4 DEF Grown
<1>7. rCount' \in 0..MaxEvents
  BY <1>2, MessagesAssumption
<1>8. /\ rOlder' \in [MsgRoom -> Seq(EventT)]
      /\ \A s \in MsgRoom : \A i \in DOMAIN rOlder'[s] : rOlder'[s][i].id \in Ids /\ rOlder'[s][i].of = 0
  BY DEF TimelinesOK
<1> QED BY <1>2, <1>5, <1>6, <1>7, <1>8, ReplacedTimeline

LEMMA SyncEventTimelines ==
  ASSUME TimelinesOK, NEW r \in MsgRoom, NEW kind \in {"message", "edit", "reaction"},
         NEW by \in Member, NEW body \in Body \cup {Blank}, SyncEvent(r, kind, by, body)
  PROVE  TimelinesOK'
PROOF
<1>1. PICK of \in IF kind = "message" THEN {0}
                  ELSE {e.id : e \in {x \in ToSet(rTimeline[r]) : x.kind = "message" /\ ~x.gone}} :
        Grown(r, Event(rCount + 1, kind, of, by, body))
  BY DEF SyncEvent
<1>2. of = 0 \/ \E i \in DOMAIN rTimeline[r] : of = rTimeline[r][i].id
  <2>1. CASE kind = "message"
    BY <1>1, <2>1
  <2>2. CASE kind # "message"
    <3>1. PICK e \in ToSet(rTimeline[r]) : of = e.id
      BY <1>1, <2>2
    <3> QED BY <3>1 DEF ToSet
  <2> QED BY <2>1, <2>2
<1>3. rCount + 1 \in Nat /\ of \in Nat
  <2>1. rTimeline[r] \in Seq(EventT)
    BY DEF TimelinesOK
  <2>2. \A i \in DOMAIN rTimeline[r] : rTimeline[r][i].id \in Nat
    <3>1. \A i \in DOMAIN rTimeline[r] : rTimeline[r][i] \in EventT
      BY <2>1
    <3>2. \A e \in EventT : e.id \in Nat
      BY DEF EventT
    <3> QED BY <3>1, <3>2
  <2>3. rCount \in Nat
    BY MessagesAssumption DEF TimelinesOK
  <2> QED BY <1>2, <2>2, <2>3
<1>4. PICK e \in EventT : e = Event(rCount + 1, kind, of, by, body)
  BY <1>3 DEF Event, EventT
<1>5. e.id = rCount + 1 /\ e.of = of
  BY <1>4 DEF Event
<1>6. Grown(r, e)
  BY <1>1, <1>4
<1>7. UNCHANGED rOlder
  BY DEF SyncEvent
<1>8. e.of = 0 \/ \E i \in DOMAIN rTimeline[r] : e.of = rTimeline[r][i].id
  BY <1>2, <1>5
<1> QED BY <1>5, <1>6, <1>7, <1>8, GrownTimeline

LEMMA SyncRoomTimelines ==
  ASSUME TimelinesOK, NEW r \in MsgRoom, SyncRoom(r)
  PROVE  TimelinesOK'
PROOF
<1>1. PICK m \in Member : m = CHOOSE x \in Member : TRUE
  BY MessagesAssumption
<1>2. rCount + 1 \in Nat
  BY MessagesAssumption DEF TimelinesOK
<1>3. PICK e \in EventT : e = Event(rCount + 1, "state", 0, m, Blank)
  BY <1>2 DEF Event, EventT
<1>4. e.id = rCount + 1 /\ e.of = 0
  BY <1>3 DEF Event
<1>5. Grown(r, e) /\ UNCHANGED rOlder
  BY <1>1, <1>3 DEF SyncRoom
<1> QED BY <1>4, <1>5, GrownTimeline

LEMMA RedactionTimelines ==
  ASSUME TimelinesOK, NEW r \in MsgRoom, NEW i, SyncRedaction(r, i)
  PROVE  TimelinesOK'
PROOF
<1>1. PICK t \in Seq(EventT) : t = rTimeline[r]
  BY DEF TimelinesOK
<1>2. Timely(t) /\ i \in DOMAIN t
  BY <1>1 DEF TimelinesOK, SyncRedaction
<1>3. Timely(Redacted(t, i)) /\ Redacted(t, i) \in Seq(EventT)
  BY <1>2, TimelyRedacted
<1>4. PICK x \in Seq(EventT) : x = Redacted(t, i)
  BY <1>3
<1>5. rCount \in 0..MaxEvents /\ rCount < MaxEvents /\ rCount' = rCount + 1 /\ rCount' \in 0..MaxEvents
  BY MessagesAssumption DEF TimelinesOK, SyncRedaction
<1>6. Timely(x)'
  BY <1>3, <1>4, <1>5, TimelyLater
<1>7. rTimeline' = [rTimeline EXCEPT ![r] = x]
  BY <1>1, <1>4 DEF SyncRedaction, Redacted
<1>8. /\ rOlder' \in [MsgRoom -> Seq(EventT)]
      /\ \A s \in MsgRoom : \A j \in DOMAIN rOlder'[s] : rOlder'[s][j].id \in Ids /\ rOlder'[s][j].of = 0
  BY DEF TimelinesOK, SyncRedaction
<1> QED BY <1>5, <1>6, <1>7, <1>8, ReplacedTimeline

LEMMA PagedTimelines ==
  ASSUME TimelinesOK, NEW r \in MsgRoom, Paged(r)
  PROVE  TimelinesOK'
PROOF
<1>0. rCount' = rCount /\ rCount \in 0..MaxEvents
  BY DEF TimelinesOK, Paged
<1>1. PICK t \in Seq(EventT) : t = rTimeline[r]
  BY DEF TimelinesOK
<1>2. PICK older \in Seq(EventT) : older = rOlder[r]
  BY DEF TimelinesOK
<1>3. CASE Len(older) = 0
  <2>1. UNCHANGED <<rTimeline, rOlder, rCount>>
    BY <1>2, <1>3 DEF Paged
  <2> QED BY <2>1, SameTimelines
<1>4. CASE Len(older) # 0
  <2> DEFINE n == Len(older)
  <2>1. n \in DOMAIN older /\ n \in Nat \ {0} /\ n - 1 \in 0..n
    BY <1>4
  <2>2. PICK e \in EventT : e = older[n]
    BY <2>1
  <2>3. e.id \in Ids /\ e.of = 0 /\ Timely(t)
    BY <1>1, <1>2, <2>1, <2>2 DEF TimelinesOK
  <2>4. Timely(<<e>> \o t) /\ <<e>> \o t \in Seq(EventT)
    BY <1>0, <2>3, TimelyPrepend
  <2>5. PICK x \in Seq(EventT) : x = <<e>> \o t
    BY <2>4
  <2>6. Timely(x)'
    BY <1>0, <2>4, <2>5, TimelyLater
  <2>7. rTimeline' = [rTimeline EXCEPT ![r] = x]
    BY <1>1, <1>2, <1>4, <2>2, <2>5 DEF Paged
  <2>8. rOlder' = [rOlder EXCEPT ![r] = SubSeq(older, 1, n - 1)]
    BY <1>2, <1>4 DEF Paged
  <2>9. /\ SubSeq(older, 1, n - 1) \in Seq(EventT)
        /\ \A i \in DOMAIN SubSeq(older, 1, n - 1) : i \in DOMAIN older /\ SubSeq(older, 1, n - 1)[i] = older[i]
    BY <2>1
  <2> HIDE DEF n
  <2>10. /\ rOlder' \in [MsgRoom -> Seq(EventT)]
         /\ \A s \in MsgRoom : \A j \in DOMAIN rOlder'[s] : rOlder'[s][j].id \in Ids /\ rOlder'[s][j].of = 0
    <3>1. rOlder \in [MsgRoom -> Seq(EventT)]
      BY DEF TimelinesOK
    <3>2. \A s \in MsgRoom : rOlder'[s] = IF s = r THEN SubSeq(older, 1, n - 1) ELSE rOlder[s]
      BY <2>8, <3>1
    <3>3. rOlder' \in [MsgRoom -> Seq(EventT)]
      BY <2>8, <2>9, <3>1
    <3>4. ASSUME NEW s \in MsgRoom, NEW j \in DOMAIN rOlder'[s]
          PROVE  rOlder'[s][j].id \in Ids /\ rOlder'[s][j].of = 0
      <4>1. CASE s = r
        <5>1. j \in DOMAIN older /\ rOlder'[s][j] = older[j]
          BY <2>9, <3>2, <3>4, <4>1
        <5> QED BY <1>2, <5>1 DEF TimelinesOK
      <4>2. CASE s # r
        BY <3>2, <3>4, <4>2 DEF TimelinesOK
      <4> QED BY <4>1, <4>2
    <3> QED BY <3>3, <3>4
  <2>11. rCount' \in {rCount, rCount + 1} /\ rCount' \in 0..MaxEvents
    BY <1>0
  <2> QED BY <2>6, <2>7, <2>10, <2>11, ReplacedTimeline
<1> QED BY <1>3, <1>4

LEMMA TrimTimelines ==
  ASSUME TimelinesOK, trimTimeline
  PROVE  TimelinesOK'
PROOF
<1>1. /\ rTimeline' = [r \in MsgRoom |-> IF r \in rKnown THEN Newest(rTimeline[r], MaxTimeline) ELSE rTimeline[r]]
      /\ UNCHANGED <<rOlder, rCount>>
  BY DEF trimTimeline
<1>2. Ids' = Ids
  BY <1>1 DEF Ids
<1>3. ASSUME NEW r \in MsgRoom
      PROVE  rTimeline'[r] \in Seq(EventT) /\ Timely(rTimeline[r])'
  <2>1. PICK t \in Seq(EventT) : t = rTimeline[r]
    BY DEF TimelinesOK
  <2>2. Timely(t)
    BY <2>1 DEF TimelinesOK
  <2>3. Timely(Newest(t, MaxTimeline)) /\ Newest(t, MaxTimeline) \in Seq(EventT)
    BY <2>2, TimelyTrimmed
  <2>4. rTimeline'[r] = IF r \in rKnown THEN Newest(t, MaxTimeline) ELSE t
    BY <1>1, <2>1
  <2>5. rTimeline'[r] \in Seq(EventT) /\ Timely(rTimeline'[r])
    BY <2>2, <2>3, <2>4
  <2> QED BY <1>2, <2>5 DEF Timely
<1> QED BY <1>1, <1>2, <1>3 DEF TimelinesOK

\* A change of the timeline starts the timer, if it is that of the room on the
\* screen.
LEMMA ChangeIsTimed ==
  ASSUME MessagesIInv, NEW r \in MsgRoom, UNCHANGED <<rRoom, rShown, rKey, rPaginating, rHasMore>>,
         debouncedExtract(r), rKnown' \in {rKnown, rKnown \cup {r}},
         \A s \in MsgRoom \ {r} : rTimeline'[s] = rTimeline[s]
  PROVE  HookOK' /\ ListShows'
PROOF
<1>1. r # NoRoom
  BY MessagesAssumption
<1>2. rTimer' = IF r = rRoom THEN r ELSE rTimer
  BY DEF debouncedExtract
<1>3. HookOK'
  BY <1>2 DEF MessagesIInv, HookOK
<1>4. ListShows'
  <2> SUFFICES ASSUME rTimer' = NoRoom, rRoom' \in rKnown' PROVE KeysShown(rTimeline[rRoom])'
    BY DEF ListShows
  <2>1. r # rRoom /\ rTimer = NoRoom
    BY <1>1, <1>2
  <2>2. rRoom \in rKnown /\ rRoom \in MsgRoom \ {r}
    BY <2>1 DEF MessagesIInv, HookOK
  <2>3. rTimeline'[rRoom] = rTimeline[rRoom]
    BY <2>2
  <2>4. KeysShown(rTimeline[rRoom])
    BY <2>1, <2>2 DEF MessagesIInv, ListShows
  <2> QED BY <2>3, <2>4 DEF KeysShown
<1> QED BY <1>3, <1>4

\* A step that changes no timeline and shows nothing new.
LEMMA ListStands ==
  ASSUME MessagesIInv, UNCHANGED <<rRoom, rKnown, rTimeline, rShown, rKey, rTimer>>,
         rPaginating' \in BOOLEAN, rHasMore' \in BOOLEAN
  PROVE  HookOK' /\ ListShows'
PROOF
<1>1. HookOK'
  BY DEF MessagesIInv, HookOK
<1>2. ListShows'
  BY DEF MessagesIInv, ListShows, KeysShown
<1> QED BY <1>1, <1>2

\* A step that reads the timeline of the room that is on the screen then.
LEMMA ReadingShows ==
  ASSUME MessagesIInv, NEW r \in MsgRoom, rRoom' = r, rTimer' \in {NoRoom, r}, Extracts(r),
         UNCHANGED <<rKnown, rTimeline>>, rPaginating' \in BOOLEAN, rHasMore' \in BOOLEAN
  PROVE  HookOK' /\ ListShows'
PROOF
<1>1. rTimeline'[r] \in Seq(EventT) /\ rKey = IdsKey(rShown) /\ Numbered(rKey)
  BY DEF MessagesIInv, HookOK, TimelinesOK
<1>2. (rKey = IdsKey(rShown) /\ Numbered(rKey))' /\ (r \in rKnown' => KeysShown(rTimeline[r])')
  BY <1>1, ExtractKeeps
<1>3. HookOK'
  BY <1>2 DEF MessagesIInv, HookOK
<1>4. ListShows'
  BY <1>2 DEF ListShows, KeysShown
<1> QED BY <1>3, <1>4

LEMMA TrimShows ==
  ASSUME MessagesIInv, trimTimeline
  PROVE  HookOK' /\ ListShows'
PROOF
<1>1. /\ rTimeline' = [r \in MsgRoom |-> IF r \in rKnown THEN Newest(rTimeline[r], MaxTimeline) ELSE rTimeline[r]]
      /\ UNCHANGED <<rKnown, rRoom, rShown, rKey, rTimer, rPaginating, rHasMore>>
  BY DEF trimTimeline, view
<1>2. HookOK'
  BY <1>1 DEF MessagesIInv, HookOK
<1>3. ListShows'
  <2> SUFFICES ASSUME rTimer' = NoRoom, rRoom' \in rKnown' PROVE KeysShown(rTimeline[rRoom])'
    BY DEF ListShows
  <2>1. rRoom \in rKnown /\ rRoom \in MsgRoom /\ KeysShown(rTimeline[rRoom])
    BY <1>1 DEF MessagesIInv, HookOK, ListShows
  <2>2. PICK t \in Seq(EventT) : t = rTimeline[rRoom]
    BY <2>1 DEF MessagesIInv, TimelinesOK
  <2>3. rTimeline'[rRoom] = Newest(t, MaxTimeline) /\ FollowUps(t) /\ Newest(t, MaxTimeline) \in Seq(EventT)
    <3>1. Timely(t)
      BY <2>1, <2>2 DEF MessagesIInv, TimelinesOK
    <3> QED BY <1>1, <2>1, <2>2, <3>1, TimelyTrimmed DEF Timely
  <2> DEFINE f == IdsKey(extractMessages(Newest(t, MaxTimeline)))
             g == IdsKey(extractMessages(t))
  <2>4. EndsAlike(f, g) /\ Numbered(f) /\ Numbered(g)
    BY <2>3, TrimmedList, ExtractedList
  <2>5. EndsAlike(g, rKey) /\ Numbered(rKey)
    BY <2>1, <2>2 DEF KeysShown, MessagesIInv, HookOK
  <2> HIDE DEF f, g
  <2>6. EndsAlike(f, rKey)
    BY <2>4, <2>5, ListedTransitive
  <2>7. rKey' = rKey /\ rRoom' = rRoom
    BY <1>1
  <2>8. IdsKey(extractMessages(rTimeline'[rRoom'])) = f
    BY <2>3, <2>7 DEF f
  <2> QED BY <2>6, <2>7, <2>8 DEF KeysShown
<1> QED BY <1>2, <1>3

LEMMA EmptyList == IdsKey(<<>>) = <<>> /\ Numbered(<<>>)
PROOF
<1>1. DOMAIN <<>> = {} /\ 1..0 = {}
  OBVIOUS
<1>2. IdsKey(<<>>) = <<>>
  BY <1>1 DEF IdsKey
<1>3. Numbered(<<>>)
  <2>1. 0 \in Nat /\ DOMAIN <<>> = 1..0 /\ <<>> = [i \in 1..0 |-> <<>>[i]]
    BY <1>1
  <2> QED BY <2>1 DEF Numbered
<1> QED BY <1>2, <1>3

LEMMA OpenShows ==
  ASSUME MessagesIInv, NEW r \in MsgRoom \cup {NoRoom}, openRoom(r)
  PROVE  HookOK' /\ ListShows'
PROOF
<1>1. CASE r = NoRoom
  <2>1. /\ rRoom' = NoRoom /\ rTimer' = NoRoom /\ UNCHANGED <<rKnown, rTimeline>>
        /\ rShown' = <<>> /\ rKey' = <<>> /\ rHasMore' = TRUE /\ UNCHANGED rPaginating
    BY <1>1 DEF openRoom
  <2>2. IdsKey(<<>>) = <<>> /\ Numbered(<<>>)
    BY EmptyList
  <2>3. HookOK'
    BY <2>1, <2>2 DEF MessagesIInv, HookOK
  <2>4. NoRoom \notin rKnown'
    BY <2>1, MessagesAssumption DEF MessagesIInv, HookOK
  <2>5. ListShows'
    BY <2>1, <2>4 DEF ListShows
  <2> QED BY <2>3, <2>5
<1>2. CASE r # NoRoom
  <2>1. /\ r \in MsgRoom /\ rRoom' = r /\ rTimer' = NoRoom /\ UNCHANGED <<rKnown, rTimeline, rHasMore>>
        /\ Extracts(r) /\ rPaginating' \in {TRUE, rPaginating}
    BY <1>2 DEF openRoom
  <2>2. rPaginating' \in BOOLEAN /\ rHasMore' \in BOOLEAN
    BY <2>1, Zenon DEF MessagesIInv, HookOK
  <2> QED BY <2>1, <2>2, ReadingShows
<1> QED BY <1>1, <1>2

LEMMA AnswerShows ==
  ASSUME MessagesIInv, NEW p \in rPages, PageAnswered(p)
  PROVE  HookOK' /\ ListShows'
PROOF
<1>1. UNCHANGED <<rRoom, rKnown, rTimeline, rTimer>>
  BY DEF PageAnswered
<1>2. rPaginating \in BOOLEAN /\ rHasMore \in BOOLEAN
  BY DEF MessagesIInv, HookOK
<1>3. CASE p.cancelled
  <2>1. UNCHANGED <<rPaginating, rHasMore, rShown, rKey>>
    BY <1>3 DEF PageAnswered
  <2> QED BY <1>1, <1>2, <2>1, ListStands
<1>4. CASE ~p.cancelled
  <2>1. /\ rPaginating' = FALSE
        /\ IF p.stage = "failed" \/ rRoom = NoRoom THEN UNCHANGED <<rShown, rKey>> ELSE Extracts(rRoom)
        /\ rHasMore' = IF p.stage = "failed" THEN rHasMore ELSE p.stage = "more"
    BY <1>4 DEF PageAnswered
  <2>2. rPaginating' \in BOOLEAN /\ rHasMore' \in BOOLEAN
    <3>1. CASE p.stage = "failed"
      BY <1>2, <2>1, <3>1, Zenon
    <3>2. CASE p.stage # "failed"
      <4>1. rHasMore' = (p.stage = "more")
        BY <2>1, <3>2
      <4> QED BY <2>1, <4>1, Zenon
    <3> QED BY <3>1, <3>2
  <2>3. CASE p.stage = "failed" \/ rRoom = NoRoom
    BY <1>1, <2>1, <2>2, <2>3, ListStands
  <2>4. CASE ~(p.stage = "failed" \/ rRoom = NoRoom)
    <3>1. PICK r \in MsgRoom : r = rRoom
      BY <2>4 DEF MessagesIInv, HookOK
    <3>2. Extracts(r) /\ rRoom' = r /\ rTimer' \in {NoRoom, r}
      BY <1>1, <2>1, <2>4, <3>1 DEF MessagesIInv, HookOK
    <3> QED BY <1>1, <2>2, <3>2, ReadingShows
  <2> QED BY <2>3, <2>4
<1> QED BY <1>3, <1>4

LEMMA MessagesStep ==
  ASSUME MessagesIInv, [MessagesNext]_messagesVars
  PROVE  MessagesIInv'
PROOF
<1>0. rPaginating \in BOOLEAN /\ rHasMore \in BOOLEAN /\ TimelinesOK
  BY DEF MessagesIInv, HookOK
<1>s. ASSUME HookOK', ListShows', TimelinesOK'
      PROVE  MessagesIInv'
  BY <1>s DEF MessagesIInv
<1>1. CASE TimerFires
  <2>1. /\ rTimer' = NoRoom /\ UNCHANGED <<rRoom, rKnown, rTimeline, rOlder, rCount, rPaginating, rHasMore>>
        /\ Extracts(rTimer) /\ rTimer # NoRoom
    BY <1>1 DEF TimerFires, pager
  <2>2. PICK r \in MsgRoom : r = rTimer
    BY <2>1 DEF MessagesIInv, HookOK
  <2>3. Extracts(r) /\ rRoom' = r
    BY <2>1, <2>2 DEF MessagesIInv, HookOK
  <2>4. HookOK' /\ ListShows'
    <3>1. rTimer' \in {NoRoom, r} /\ rPaginating' \in BOOLEAN /\ rHasMore' \in BOOLEAN
      BY <1>0, <2>1
    <3> QED BY <2>1, <2>3, <3>1, ReadingShows
  <2>5. TimelinesOK'
    BY <1>0, <2>1, SameTimelines
  <2> QED BY <1>s, <2>4, <2>5
<1>2. CASE trimTimeline
  BY <1>0, <1>2, <1>s, TrimShows, TrimTimelines
<1>3. CASE loadMore
  <2>1. /\ UNCHANGED <<rRoom, rKnown, rTimeline, rOlder, rCount, rShown, rKey, rTimer>>
        /\ rPaginating' \in BOOLEAN /\ rHasMore' \in BOOLEAN
    BY <1>0, <1>3 DEF loadMore
  <2> QED BY <1>0, <1>s, <2>1, ListStands, SameTimelines
<1>4. ASSUME NEW r \in MsgRoom \cup {NoRoom}, openRoom(r)
      PROVE  MessagesIInv'
  <2>1. UNCHANGED <<rTimeline, rOlder, rCount>>
    BY <1>4 DEF openRoom
  <2> QED BY <1>0, <1>4, <1>s, <2>1, OpenShows, SameTimelines
<1>5. ASSUME NEW r \in MsgRoom, SyncRoom(r)
      PROVE  MessagesIInv'
  <2>1. /\ UNCHANGED <<rRoom, rShown, rKey, rPaginating, rHasMore>> /\ debouncedExtract(r)
        /\ rKnown' = rKnown \cup {r}
        /\ \A s \in MsgRoom \ {r} : rTimeline'[s] = rTimeline[s]
    BY <1>0, <1>5 DEF SyncRoom, pager, Grown, TimelinesOK
  <2> QED BY <1>0, <1>5, <1>s, <2>1, ChangeIsTimed, SyncRoomTimelines
<1>6. ASSUME NEW r \in MsgRoom, NEW kind \in {"message", "edit", "reaction"},
             NEW by \in Member, NEW body \in Body \cup {Blank}, SyncEvent(r, kind, by, body)
      PROVE  MessagesIInv'
  <2>1. /\ UNCHANGED <<rRoom, rShown, rKey, rPaginating, rHasMore>> /\ debouncedExtract(r)
        /\ rKnown' = rKnown
        /\ \A s \in MsgRoom \ {r} : rTimeline'[s] = rTimeline[s]
    BY <1>0, <1>6 DEF SyncEvent, pager, Grown, TimelinesOK
  <2>2. HookOK' /\ ListShows'
    BY <2>1, ChangeIsTimed
  <2>3. TimelinesOK'
    BY <1>0, <1>6, SyncEventTimelines
  <2> QED BY <1>s, <2>2, <2>3
<1>7. ASSUME NEW r \in MsgRoom, NEW i, SyncRedaction(r, i)
      PROVE  MessagesIInv'
  <2>1. /\ UNCHANGED <<rRoom, rShown, rKey, rPaginating, rHasMore>> /\ debouncedExtract(r)
        /\ rKnown' = rKnown
        /\ \A s \in MsgRoom \ {r} : rTimeline'[s] = rTimeline[s]
    BY <1>0, <1>7 DEF SyncRedaction, pager, TimelinesOK
  <2> QED BY <1>0, <1>7, <1>s, <2>1, ChangeIsTimed, RedactionTimelines
<1>8. ASSUME NEW r \in MsgRoom, Paged(r)
      PROVE  MessagesIInv'
  <2>0. UNCHANGED <<rRoom, rKnown, rShown, rKey, rPaginating, rHasMore>>
    BY <1>8 DEF Paged
  <2>1. HookOK' /\ ListShows'
    <3>1. CASE Len(rOlder[r]) = 0
      <4>1. UNCHANGED <<rTimeline, rTimer>>
        BY <1>8, <3>1 DEF Paged
      <4> QED BY <1>0, <2>0, <4>1, ListStands
    <3>2. CASE Len(rOlder[r]) # 0
      <4>1. debouncedExtract(r)
        BY <1>8, <3>2 DEF Paged
      <4>2. rTimeline' = [rTimeline EXCEPT ![r] = <<rOlder[r][Len(rOlder[r])]>> \o @]
        BY <1>8, <3>2 DEF Paged
      <4>3. \A s \in MsgRoom \ {r} : rTimeline'[s] = rTimeline[s]
        BY <1>0, <4>2 DEF TimelinesOK
      <4> QED BY <2>0, <4>1, <4>3, ChangeIsTimed
    <3> QED BY <3>1, <3>2
  <2> QED BY <1>0, <1>8, <1>s, <2>1, PagedTimelines
<1>9. ASSUME NEW r \in MsgRoom, PageRefused(r)
      PROVE  MessagesIInv'
  <2>1. /\ UNCHANGED <<rRoom, rKnown, rTimeline, rOlder, rCount, rShown, rKey, rTimer>>
        /\ rPaginating' \in BOOLEAN /\ rHasMore' \in BOOLEAN
    BY <1>0, <1>9 DEF PageRefused
  <2> QED BY <1>0, <1>s, <2>1, ListStands, SameTimelines
<1>10. ASSUME NEW p \in rPages, PageAnswered(p)
       PROVE  MessagesIInv'
  <2>1. UNCHANGED <<rTimeline, rOlder, rCount>>
    BY <1>10 DEF PageAnswered
  <2> QED BY <1>0, <1>10, <1>s, <2>1, AnswerShows, SameTimelines
<1>11. CASE UNCHANGED messagesVars
  <2>1. /\ UNCHANGED <<rRoom, rKnown, rTimeline, rOlder, rCount, rShown, rKey, rTimer>>
        /\ rPaginating' \in BOOLEAN /\ rHasMore' \in BOOLEAN
    BY <1>0, <1>11 DEF messagesVars
  <2> QED BY <1>0, <1>s, <2>1, ListStands, SameTimelines
<1>12. ASSUME MessagesNext PROVE MessagesIInv'
  BY <1>1, <1>2, <1>3, <1>4, <1>5, <1>6, <1>7, <1>8, <1>9, <1>10, <1>12 DEF MessagesNext
<1> QED BY <1>11, <1>12

LEMMA MessagesInvInit == MessagesInit => MessagesIInv
PROOF
<1> SUFFICES ASSUME MessagesInit PROVE MessagesIInv
  OBVIOUS
<1>1. /\ rRoom = NoRoom /\ rKnown \subseteq MsgRoom /\ rTimer = NoRoom
      /\ rTimeline = [r \in MsgRoom |-> <<>>] /\ rCount = 0
      /\ rShown = <<>> /\ rKey = <<>> /\ rPaginating = FALSE /\ rHasMore = TRUE
  BY DEF MessagesInit
<1>2. HookOK
  BY <1>1, EmptyList DEF HookOK
<1>3. ListShows
  BY <1>1, MessagesAssumption DEF ListShows
<1>4. /\ rOlder \in [MsgRoom -> Seq(EventT)]
      /\ \A r \in MsgRoom : \A i \in DOMAIN rOlder[r] : rOlder[r][i].id \in Ids /\ rOlder[r][i].of = 0
  <2>1. PICK b \in Body, m \in Member :
          rOlder \in [MsgRoom -> {<<>>, <<Event(MaxEvents + 1, "message", 0, m, b),
                                          Event(MaxEvents + 2, "message", 0, m, b)>>}]
    BY DEF MessagesInit
  <2>2. MaxEvents + 1 \in Nat /\ MaxEvents + 2 \in Nat
    BY MessagesAssumption
  <2>3. PICK e \in EventT : e = Event(MaxEvents + 1, "message", 0, m, b)
    BY <2>2 DEF Event, EventT
  <2>4. PICK f \in EventT : f = Event(MaxEvents + 2, "message", 0, m, b)
    BY <2>2 DEF Event, EventT
  <2>5. e.id \in Ids /\ e.of = 0 /\ f.id \in Ids /\ f.of = 0
    BY <2>3, <2>4 DEF Event, Ids
  <2>6. rOlder \in [MsgRoom -> {<<>>, <<e, f>>}]
    BY <2>1, <2>3, <2>4
  <2>7. <<>> \in Seq(EventT) /\ <<e, f>> \in Seq(EventT)
    OBVIOUS
  <2>8. \A s \in {<<>>, <<e, f>>} : \A i \in DOMAIN s : s[i] = e \/ s[i] = f
    OBVIOUS
  <2>9. rOlder \in [MsgRoom -> Seq(EventT)]
    BY <2>6, <2>7
  <2>10. \A r \in MsgRoom : rOlder[r] \in {<<>>, <<e, f>>}
    BY <2>6
  <2> QED BY <2>5, <2>8, <2>9, <2>10
<1>5. Timely(<<>>)
  BY DEF Timely, FollowUps
<1>6. TimelinesOK
  <2>1. rTimeline \in [MsgRoom -> Seq(EventT)] /\ \A r \in MsgRoom : Timely(rTimeline[r])
    BY <1>1, <1>5
  <2>2. rCount \in 0..MaxEvents
    BY <1>1, MessagesAssumption
  <2> QED BY <1>4, <2>1, <2>2 DEF TimelinesOK
<1> QED BY <1>2, <1>3, <1>6 DEF MessagesIInv

\* The inductive invariant of the messages, for any rooms, events and limits.
LEMMA MessagesIInvAlways == MessagesSpec => []MessagesIInv
PROOF
<1>1. MessagesIInv /\ [MessagesNext]_messagesVars => MessagesIInv'
  BY MessagesStep
<1> QED BY MessagesInvInit, <1>1, PTL DEF MessagesSpec

LEMMA MessagesTyped == MessagesIInv => MessagesTypeOK
PROOF
<1> SUFFICES ASSUME MessagesIInv PROVE MessagesTypeOK
  OBVIOUS
<1>1. {rPaginating, rHasMore} \subseteq BOOLEAN
  <2>1. rPaginating \in BOOLEAN /\ rHasMore \in BOOLEAN
    BY DEF MessagesIInv, HookOK
  <2> QED BY <2>1, Zenon
<1>2. /\ rRoom \in MsgRoom \cup {NoRoom} /\ rKnown \subseteq MsgRoom
      /\ rTimer \in MsgRoom \cup {NoRoom}
      /\ rKey = IdsKey(rShown)
  BY DEF MessagesIInv, HookOK
<1> QED BY <1>1, <1>2 DEF MessagesTypeOK

\* useRoomMessages: the key that spares a render is that of the list shown.
THEOREM MessagesTypes == MessagesSpec => []MessagesTypeOK
PROOF
<1> QED BY MessagesIInvAlways, MessagesTyped, PTL

\* useRoomMessages: once its timer has fired, what the room's timeline gives is
\* the end of the list, also when a minute's trim took the front of the
\* timeline, for any limits of the trim and of the events that are looked at.
THEOREM ListShowsTimeline == MessagesSpec => []ShowsTheTimeline
PROOF
<1>1. MessagesIInv => ShowsTheTimeline
  <2> SUFFICES ASSUME MessagesIInv, rTimer = NoRoom, rRoom \in rKnown
               PROVE  IsSuffix(IdsKey(extractMessages(rTimeline[rRoom])), IdsKey(rShown))
    BY DEF ShowsTheTimeline
  <2>1. PICK t \in Seq(EventT) : t = rTimeline[rRoom]
    BY DEF MessagesIInv, HookOK, TimelinesOK
  <2> DEFINE f == IdsKey(extractMessages(t))
  <2>2. Numbered(f)
    BY ExtractedList
  <2>3. EndsAlike(f, rKey) /\ Numbered(rKey) /\ rKey = IdsKey(rShown)
    BY <2>1 DEF MessagesIInv, HookOK, ListShows, KeysShown
  <2> HIDE DEF f
  <2>4. IsSuffix(f, rKey)
    BY <2>2, <2>3, ListedSuffix
  <2> QED BY <2>1, <2>3, <2>4 DEF f
<1> QED BY MessagesIInvAlways, <1>1, PTL

-----------------------------------------------------------------------------
(***************************************************************************)
(* The chat as a whole: MCClientChat's parts share no variable, and a step *)
(* of it is a step of one part, or a stutter of it.                        *)
(***************************************************************************)

PartsInv == NavIInv /\ MessagesIInv /\ ComposerInv /\ SessionsIInv /\ BridgeInv /\ PeerIInv

LEMMA PartsSteps ==
  ASSUME [Next]_vars
  PROVE  /\ [NavigationNext]_navigationVars /\ [MessagesNext]_messagesVars
         /\ [ComposerNext]_composerVars /\ [SessionsNext]_sessionsVars
         /\ [BridgeNext]_bridgeVars /\ [PeerNext]_peerVars
PROOF
<1>1. CASE UNCHANGED vars
  BY <1>1 DEF vars
<1>2. CASE Stays("navigation") /\ NavigationNext
  BY <1>2, Zenon DEF Stays
<1>3. CASE Stays("messages") /\ MessagesNext
  BY <1>3, Zenon DEF Stays
<1>4. CASE Stays("composer") /\ ComposerNext
  BY <1>4, Zenon DEF Stays
<1>5. CASE Stays("sessions") /\ SessionsNext
  BY <1>5, Zenon DEF Stays
<1>6. CASE Stays("bridge") /\ BridgeNext
  BY <1>6, Zenon DEF Stays
<1>7. CASE Stays("peers") /\ PeerNext
  BY <1>7, Zenon DEF Stays
<1> QED BY <1>1, <1>2, <1>3, <1>4, <1>5, <1>6, <1>7, Zenon DEF Next

LEMMA PartsInvAlways == Spec => []PartsInv
PROOF
<1>1. Init => PartsInv
  <2> SUFFICES ASSUME Init PROVE PartsInv
    OBVIOUS
  <2>1. /\ NavigationInit /\ MessagesInit /\ ComposerInit
        /\ SessionsInit /\ BridgeInit /\ PeerInit
    BY Zenon DEF Init
  <2>2. NavIInv
    BY <2>1, NavInitHolds
  <2> QED
    BY <2>1, <2>2, MessagesInvInit, ComposerInvInit, SessionsInvInit, BridgeInvInit, PeerInvInit, Zenon
    DEF PartsInv
<1>2. PartsInv /\ [Next]_vars => PartsInv'
  <2> SUFFICES ASSUME PartsInv, [Next]_vars PROVE PartsInv'
    OBVIOUS
  <2>1. NavIInv /\ MessagesIInv /\ ComposerInv /\ SessionsIInv /\ BridgeInv /\ PeerIInv
    BY Zenon DEF PartsInv
  <2>2. /\ [NavigationNext]_navigationVars /\ [MessagesNext]_messagesVars
        /\ [ComposerNext]_composerVars /\ [SessionsNext]_sessionsVars
        /\ [BridgeNext]_bridgeVars /\ [PeerNext]_peerVars
    BY PartsSteps
  <2>3. NavIInv'
    BY <2>1, <2>2, NavStepHolds
  <2>4. MessagesIInv'
    BY <2>1, <2>2, MessagesStep
  <2> QED
    BY <2>1, <2>2, <2>3, <2>4, ComposerInvStep, SessionsInvStep, BridgeInvStep, PeerInvStep, Zenon
    DEF PartsInv
<1> QED BY <1>1, <1>2, PTL DEF Spec

\* Every part of the chat is well formed, one surface is shown at a time, a frame
\* gets an event once (useExtensionBridge.ts), and the camera is off outside its tab
\* (PeerCardScanner.tsx): for any number of servers, rooms, events, extensions and peers.
THEOREM ChatHolds == Spec => []ChatInv
PROOF
<1>1. NavIInv => OneSurface
  BY NavParts
<1>2. ComposerInv => ComposerTypeOK
  BY DEF ComposerInv
<1>3. BridgeInv => BridgeTypeOK /\ ForwardedOnce
  BY DEF BridgeInv
<1>4. PeerIInv => CameraOff
  BY DEF PeerIInv, CamerasOK, CameraOff
<1>5. PartsInv => ChatInv
  BY <1>1, <1>2, <1>3, <1>4, NavigationTyped, MessagesTyped, SessionsTyped, PeerTyped, Zenon
  DEF PartsInv, ChatInv
<1> QED BY <1>5, PartsInvAlways, PTL
=============================================================================
