------------------------------ MODULE Composer ------------------------------
(***************************************************************************)
(* Writing: the message box (MessageInput.tsx), the send, edit and upload  *)
(* calls of useMatrix.ts and the typing notices of useTyping.ts.  One box  *)
(* serves every room: React keeps it when the room changes, with its text. *)
(* A submission closes over the room and the edit of the render it was     *)
(* made in.  The homeserver is external.                                   *)
(***************************************************************************)
EXTENDS Naturals, FiniteSets

CONSTANTS
  BoxRoom,        \* rooms
  Text,           \* what the user writes
  MaxSubmissions, \* bound on submissions
  MaxMoves,       \* bound on changes of room and of edit mode
  MaxNotices      \* bound on typing notices under way

ASSUME ComposerAssumption == MaxSubmissions \in Nat /\ MaxMoves \in Nat /\ MaxNotices \in Nat

Nothing == "nothing"
Idle == [step |-> "idle"]

VARIABLES
  bRoom,      \* activeRoomId
  bText,      \* text, Nothing when empty
  bFiles,     \* number of staged files
  bEditing,   \* editingMessage: the room of the message, or Nothing
  bSub,       \* the submission under way, Idle when ~sending
  bPosted,    \* posts that the homeserver carried out, by submission and kind
  bMember,    \* rooms whose membership the homeserver has not lost
  bTyping,    \* typingRef
  bTypingTimer,
  bNotices,   \* typing notices under way
  bTold,      \* rooms where others see this user typing (external)
  bAstray,    \* history: rooms whose ending notice was lost or overtook a beginning one
  bCount, bMoves

composerVars == <<bRoom, bText, bFiles, bEditing, bSub, bPosted, bMember, bTyping, bTypingTimer,
                  bNotices, bTold, bAstray, bCount, bMoves>>
box == <<bText, bFiles, bEditing>>
notices == <<bNotices, bTold, bAstray>>
typing == <<bTyping, bTypingTimer, notices>>

-----------------------------------------------------------------------------
(***************************************************************************)
(* useSendTyping.  A notice is a request of its own, which may be lost     *)
(* (catch(() => {})) or overtake another; others see what came last.  Of   *)
(* the notices of a room only the last one sent is told from the others;   *)
(* older ones alike are one, which stays as long as one of them is left.   *)
(* Others stop seeing it 30 seconds after it began, whatever else happens. *)
(***************************************************************************)

Typed(r) == r = bRoom /\ bTyping
Awaits(r, on) == \E x \in bNotices : x.room = r /\ x.on = on
sendTyping(r, on) ==
  /\ bNotices' = {IF x.room = r THEN [x EXCEPT !.last = FALSE] ELSE x : x \in bNotices}
                   \cup {[room |-> r, on |-> on, last |-> TRUE]}
  /\ Cardinality(bNotices') <= MaxNotices
  /\ bAstray' = bAstray \ {r} /\ UNCHANGED bTold

onKeystroke ==
  /\ bTypingTimer' = TRUE /\ bTyping' = TRUE
  /\ IF bTyping THEN UNCHANGED notices ELSE sendTyping(bRoom, TRUE)
stopTyping ==
  IF bTyping THEN bTyping' = FALSE /\ bTypingTimer' = FALSE /\ sendTyping(bRoom, FALSE)
  ELSE UNCHANGED typing
TypingTimeout ==
  /\ bTypingTimer
  /\ bTypingTimer' = FALSE /\ bTyping' = FALSE
  /\ IF bTyping THEN sendTyping(bRoom, FALSE) ELSE UNCHANGED notices
  /\ UNCHANGED <<bRoom, box, bSub, bPosted, bMember, bCount, bMoves>>
\* Mutant: leaving a room clears the timer and says nothing.
leaveTyping_Silent == bTypingTimer' = FALSE /\ bTyping' = FALSE /\ UNCHANGED notices
\* The effect's cleanup, at a change of room.
leaveTyping ==
  /\ bTypingTimer' = FALSE /\ bTyping' = FALSE
  /\ IF bTyping THEN sendTyping(bRoom, FALSE) ELSE UNCHANGED notices

NoticeGone(x) == bNotices' = bNotices \ {x} \/ (~x.last /\ UNCHANGED bNotices)
Astray(x, lost) ==
  IF lost THEN x.last /\ ~x.on
  ELSE x.on /\ ~Typed(x.room) /\ ~\E y \in bNotices : y.room = x.room /\ y.last
NoticeArrives(x, lost) ==
  /\ NoticeGone(x)
  /\ bTold' = IF lost THEN bTold ELSE IF x.on THEN bTold \cup {x.room} ELSE bTold \ {x.room}
  /\ bAstray' = IF Astray(x, lost) THEN bAstray \cup {x.room} ELSE bAstray
  /\ UNCHANGED <<bRoom, box, bSub, bPosted, bMember, bTyping, bTypingTimer, bCount, bMoves>>
TypingExpires(r) ==
  /\ r \in bTold /\ bTold' = bTold \ {r} /\ bAstray' = bAstray \ {r}
  /\ UNCHANGED <<bRoom, box, bSub, bPosted, bMember, bTyping, bTypingTimer, bNotices, bCount, bMoves>>

-----------------------------------------------------------------------------
(***************************************************************************)
(* The box.                                                                *)
(***************************************************************************)

\* handleChange: typing notices only outside of edit mode.
handleChange(t) ==
  /\ t # bText /\ bText' = t
  /\ IF bEditing # Nothing THEN UNCHANGED typing
     ELSE IF t = Nothing THEN stopTyping ELSE onKeystroke
  /\ UNCHANGED <<bRoom, bFiles, bEditing, bSub, bPosted, bMember, bCount, bMoves>>
stageFiles ==
  /\ bFiles = 0 /\ bFiles' = 1
  /\ UNCHANGED <<bRoom, bText, bEditing, bSub, bPosted, bMember, typing, bCount, bMoves>>
removeStaged ==
  /\ bFiles > 0 /\ bFiles' = bFiles - 1
  /\ UNCHANGED <<bRoom, bText, bEditing, bSub, bPosted, bMember, typing, bCount, bMoves>>
\* Clicking edit on a message; its body replaces the draft.
startEdit(t) ==
  /\ bMoves < MaxMoves /\ bMoves' = bMoves + 1
  /\ bEditing' = bRoom /\ bText' = t /\ bFiles' = 0
  /\ UNCHANGED <<bRoom, bSub, bPosted, bMember, typing, bCount>>
Escape ==
  /\ bEditing # Nothing
  /\ bEditing' = Nothing /\ bText' = Nothing
  /\ UNCHANGED <<bRoom, bFiles, bSub, bPosted, bMember, typing, bCount, bMoves>>
\* The room changes: the edit ends, the text stays.
openChat(r) ==
  /\ r # bRoom /\ bMoves < MaxMoves /\ bMoves' = bMoves + 1
  /\ bRoom' = r /\ bEditing' = Nothing
  /\ leaveTyping
  /\ UNCHANGED <<bText, bFiles, bSub, bPosted, bMember, bCount>>

\* handleSubmit, up to its first await.  An edit takes no file.
handleSubmit ==
  /\ bText # Nothing \/ bFiles > 0
  /\ bSub = Idle /\ bCount < MaxSubmissions
  /\ bSub' = [id |-> bCount, room |-> bRoom, text |-> bText, edit |-> bEditing # Nothing,
              files |-> IF bEditing = Nothing THEN bFiles ELSE 0,
              step |-> "file", tried |-> FALSE]
  /\ bCount' = bCount + 1
  /\ bText' = Nothing /\ bFiles' = 0
  /\ stopTyping
  /\ UNCHANGED <<bRoom, bEditing, bPosted, bMember, bMoves>>

-----------------------------------------------------------------------------
(***************************************************************************)
(* The submission's calls.  Each is carried out or not, and is answered    *)
(* or not; a room without membership refuses with M_FORBIDDEN.             *)
(***************************************************************************)

Active(step) == bSub.step = step
Outcome == {"answered", "answer lost", "refused"}
Happens(kind, o) ==
  bPosted' = IF o = "refused" THEN bPosted
             ELSE bPosted \cup {[sub |-> bSub.id, kind |-> kind, room |-> bSub.room, again |-> bSub.tried]}
Possible(o) == o # "refused" => bSub.room \in bMember
Finished == bSub' = Idle

\* useSendFile reports a failure and goes on.
sendFile(o) ==
  /\ Active("file") /\ bSub.files > 0 /\ Possible(o)
  /\ Happens("file", o)
  /\ bSub' = [bSub EXCEPT !.files = @ - 1]
  /\ UNCHANGED <<bRoom, box, bMember, typing, bCount, bMoves>>
FilesSent ==
  /\ Active("file") /\ bSub.files = 0
  /\ bSub' = IF bSub.text = Nothing /\ ~bSub.edit THEN Idle
             ELSE [bSub EXCEPT !.step = IF bSub.edit THEN "edit" ELSE "send"]
  /\ UNCHANGED <<bRoom, box, bPosted, bMember, typing, bCount, bMoves>>

\* useEditMessage swallows a failure; the edit mode ends in any case, also that
\* of an edit begun since.
editMessage(o) ==
  /\ Active("edit") /\ Possible(o)
  /\ Happens("edit", o) /\ Finished
  /\ bEditing' = Nothing
  /\ UNCHANGED <<bRoom, bText, bFiles, bMember, typing, bCount, bMoves>>

\* A failed submission puts its text back into an empty box.
Fails == /\ Finished
         /\ bText' = IF bText = Nothing THEN bSub.text ELSE bText
Answered(o) ==
  IF o = "answered" THEN Finished /\ UNCHANGED bText ELSE Fails

\* Mutant: any error is followed by a second attempt.
sendMessage_AnyError(o) ==
  /\ Active("send") /\ Possible(o)
  /\ Happens("text", o)
  /\ IF o # "answered" /\ ~bSub.tried
     THEN bSub' = [bSub EXCEPT !.step = "rejoin"] /\ UNCHANGED bText
     ELSE Answered(o)
  /\ UNCHANGED <<bRoom, bFiles, bEditing, bMember, typing, bCount, bMoves>>

\* useSendMessage: only a lost membership is followed by a second attempt.
sendMessage(o) ==
  /\ Active("send") /\ Possible(o)
  /\ Happens("text", o)
  /\ IF o = "refused" /\ bSub.room \notin bMember /\ ~bSub.tried
     THEN bSub' = [bSub EXCEPT !.step = "rejoin"] /\ UNCHANGED bText
     ELSE Answered(o)
  /\ UNCHANGED <<bRoom, bFiles, bEditing, bMember, typing, bCount, bMoves>>
\* rejoinServerRooms is for the server active by now; without one, or when it
\* fails, the submission fails.
rejoinServerRooms(ok, joined) ==
  /\ Active("rejoin")
  /\ joined => ok
  /\ bMember' = IF joined THEN bMember \cup {bSub.room} ELSE bMember
  /\ IF ok THEN bSub' = [bSub EXCEPT !.step = "send", !.tried = TRUE] /\ UNCHANGED bText
     ELSE Fails
  /\ UNCHANGED <<bRoom, bFiles, bEditing, bPosted, typing, bCount, bMoves>>

LoseMembership(r) ==
  /\ r \in bMember /\ bMoves < MaxMoves /\ bMoves' = bMoves + 1
  /\ bMember' = bMember \ {r}
  /\ UNCHANGED <<bRoom, box, bSub, bPosted, typing, bCount>>

-----------------------------------------------------------------------------

ComposerInit ==
  /\ bRoom \in BoxRoom /\ bText = Nothing /\ bFiles = 0 /\ bEditing = Nothing
  /\ bSub = Idle /\ bPosted = {} /\ bMember \in {BoxRoom, BoxRoom \ {bRoom}}
  /\ bTyping = FALSE /\ bTypingTimer = FALSE
  /\ bNotices = {} /\ bTold = {} /\ bAstray = {}
  /\ bCount = 0 /\ bMoves = 0

ComposerNext ==
  \/ TypingTimeout \/ stageFiles \/ removeStaged \/ Escape \/ handleSubmit \/ FilesSent
  \/ \E t \in Text \cup {Nothing} : handleChange(t)
  \/ \E t \in Text : startEdit(t)
  \/ \E r \in BoxRoom : openChat(r) \/ LoseMembership(r) \/ TypingExpires(r)
  \/ \E x \in bNotices, lost \in BOOLEAN : NoticeArrives(x, lost)
  \/ \E o \in Outcome : sendFile(o) \/ editMessage(o) \/ sendMessage(o)
  \/ \E ok, joined \in BOOLEAN : rejoinServerRooms(ok, joined)

ComposerSpec == ComposerInit /\ [][ComposerNext]_composerVars

-----------------------------------------------------------------------------

\* The box and the submission are well formed.
ComposerTypeOK ==
  /\ bRoom \in BoxRoom /\ bText \in Text \cup {Nothing} /\ bFiles \in 0..1
  /\ bEditing \in {Nothing, bRoom}
  /\ bSub # Idle => bSub.room \in BoxRoom /\ bSub.step \in {"file", "send", "rejoin", "edit"}
  /\ bMember \subseteq BoxRoom /\ bCount \in 0..MaxSubmissions

\* A submission's text is posted at most once, rejoining and sending again
\* included: the retry follows only a refusal, never a lost answer.
SentOnce ==
  \A p, q \in bPosted : p.sub = q.sub /\ p.kind = "text" /\ q.kind = "text" => p = q

\* Nobody is left looking at a typing notice: it is seen only in the active room
\* while the timer that ends it runs, or while the notice that ends it is under
\* way, or, for half a minute, where that notice was lost or came too soon.
TypingOnlyHere ==
  \A r \in bTold : (Typed(r) /\ bTypingTimer) \/ Awaits(r, FALSE) \/ r \in bAstray
=============================================================================
