------------------------------ MODULE ChatPage ------------------------------
(***************************************************************************)
(* The chat page: messages in React state, copied to sessionStorage by an   *)
(* effect, with the questions in flight.  A message is the number of its    *)
(* question and who said it.  Whatever happens to a question, a message     *)
(* comes of it: an answer, an error text, or the text for no connection.    *)
(***************************************************************************)
EXTENDS Naturals, SequencesExt

CONSTANT MaxQuestions     \* bound: questions asked

VARIABLES
  messages,      \* what the page shows
  stored,        \* what sessionStorage holds
  chatLoading,
  pending,       \* questions in flight
  asked,         \* questions asked so far
  unanswered,    \* history: questions whose page was left before their answer
  renewed,       \* history: a new chat was started while a question was in flight
  remembered     \* history: messages were stored after the sign-out had cleared them

chatVars == <<messages, stored, chatLoading, pending, asked, unanswered, renewed, remembered>>

Said(n, by) == [of |-> n, by |-> by]

ChatInit ==
  /\ messages = <<>> /\ stored = <<>> /\ chatLoading = FALSE /\ pending = {} /\ asked = 0
  /\ unanswered = {} /\ renewed = FALSE /\ remembered = FALSE

(* The page mounts and reads what is stored ... *)
OpenChat ==
  /\ messages' = stored /\ chatLoading' = FALSE
  /\ UNCHANGED <<stored, pending, asked, unanswered, renewed, remembered>>

(* ... and is left: answers still in flight find nobody. *)
LeaveChat ==
  /\ unanswered' = unanswered \cup pending
  /\ pending' = {} /\ messages' = <<>> /\ chatLoading' = FALSE
  /\ UNCHANGED <<stored, asked, renewed, remembered>>

Shown(ms, leaving) ==
  /\ messages' = ms /\ stored' = ms
  /\ remembered' = (remembered \/ leaving)

(* Mutation of SendMessage: the input stays enabled. *)
SendMessageAnytime(leaving) ==
  /\ asked < MaxQuestions
  /\ asked' = asked + 1 /\ pending' = pending \cup {asked'}
  /\ Shown(Append(messages, Said(asked', "user")), leaving)
  /\ chatLoading' = TRUE
  /\ UNCHANGED <<unanswered, renewed>>

(* A question is typed and sent, which is disabled while one is in flight;   *)
(* or it is one of the suggestions of an empty chat, which are not.          *)
SendMessage(leaving) ==
  /\ ~chatLoading \/ messages = <<>>
  /\ asked < MaxQuestions
  /\ asked' = asked + 1 /\ pending' = pending \cup {asked'}
  /\ Shown(Append(messages, Said(asked', "user")), leaving)
  /\ chatLoading' = TRUE
  /\ UNCHANGED <<unanswered, renewed>>

Answered(n, leaving) ==
  /\ n \in pending
  /\ pending' = pending \ {n}
  /\ Shown(Append(messages, Said(n, "assistant")), leaving)
  /\ chatLoading' = FALSE
  /\ UNCHANGED <<asked, unanswered, renewed>>

StartNewChat(leaving) ==
  /\ messages # <<>>
  /\ Shown(<<>>, leaving)
  /\ renewed' = (pending # {})
  /\ UNCHANGED <<chatLoading, pending, asked, unanswered>>

(* Signing out clears sessionStorage, and the page stays until the answer of *)
(* the sign-out redirects it.                                                *)
ClearStorage == stored' = <<>> /\ remembered' = FALSE /\ UNCHANGED renewed

ChatNext(leaving) ==
  \/ SendMessage(leaving) \/ StartNewChat(leaving)
  \/ \E n \in pending : Answered(n, leaving)

-----------------------------------------------------------------------------
(* Every answer follows its question, and every question is followed by its  *)
(* answer unless that is in flight or the page was left before: also in a    *)
(* chat that was stored and opened again, and unless a new chat was started  *)
(* with a question in flight, whose answer it gets (sendMessage,             *)
(* startNewChat, the effect that stores).                                    *)
AnswersHaveQuestions ==
  \A i \in DOMAIN messages :
    LET m == messages[i]
    IN  IF m.by = "assistant"
        THEN renewed \/ (i > 1 /\ messages[i - 1] = Said(m.of, "user"))
        ELSE \/ m.of \in pending \cup unanswered \/ renewed
             \/ i < Len(messages) /\ messages[i + 1] = Said(m.of, "assistant")
=============================================================================
