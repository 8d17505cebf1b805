----------------------- MODULE ConversationLifecycle -----------------------
(***************************************************************************)
(* What the application promises about conversations, without Pi, Discord, *)
(* the gate or the time: there is at most one live conversation; it is     *)
(* opened, perhaps several times begun to be closed, and either completed  *)
(* or discarded, and a completed conversation stays as it is until its     *)
(* record is deleted (README.md, docs/project-state.md).                   *)
(***************************************************************************)
CONSTANTS Convs, NULL  \* NULL: no conversation

VARIABLES
  live,     \* the live conversation, or NULL
  closing,  \* whether its closure has begun
  archive   \* the completed conversations

vars == <<live, closing, archive>>

Init == live = NULL /\ closing = FALSE /\ archive = {}

Open(c) ==
  /\ live = NULL
  /\ c \notin archive
  /\ live' = c
  /\ UNCHANGED <<closing, archive>>

BeginClosing ==
  /\ live # NULL
  /\ closing' = TRUE
  /\ UNCHANGED <<live, archive>>

AbandonClosing ==
  /\ closing' = FALSE
  /\ UNCHANGED <<live, archive>>

Complete ==
  /\ closing
  /\ archive' = archive \cup {live}
  /\ live' = NULL
  /\ closing' = FALSE

Discard ==
  /\ live # NULL
  /\ live' = NULL
  /\ closing' = FALSE
  /\ UNCHANGED archive

DeleteRecord(c) ==
  /\ archive' = archive \ {c}
  /\ UNCHANGED <<live, closing>>

Next ==
  \/ \E c \in Convs : Open(c) \/ DeleteRecord(c)
  \/ BeginClosing
  \/ AbandonClosing
  \/ Complete
  \/ Discard

Spec == Init /\ [][Next]_vars

=============================================================================
