----------------------------- MODULE SupportChat -----------------------------
(***************************************************************************)
(* A page that shows a conversation (PlatformSupportInbox.tsx; the pages   *)
(* of one conversation are the same with a thread that is opened once):    *)
(* the thread as it was fetched, and what a WebSocket and the answers to   *)
(* the operator's own replies add to it.                                   *)
(*                                                                         *)
(* A message is committed, then published to the sockets that are          *)
(* subscribed at that moment.  A socket that closes is opened again; what  *)
(* was published in between is not sent again, and nothing is fetched.     *)
(* When another conversation comes up, the socket of the former one is     *)
(* closed by an effect that runs after the screen has changed; until then  *)
(* what it brings is put on the screen, unchecked.                         *)
(***************************************************************************)
EXTENDS Naturals, FiniteSets

CONSTANTS
    Conversations, NoConversation,
    Messages, NoMessage,
    MaxLoads            \* bounds the fetches in flight

ASSUME SupportAssumption ==
    /\ NoConversation \notin Conversations
    /\ NoMessage \notin Messages
    /\ MaxLoads \in Nat

VARIABLES
    log,          \* the messages of each conversation
    unpublished,  \* messages committed and not yet published
    selected,     \* the conversation on the screen
    shown,        \* the messages on the screen
    joined,       \* the conversation the page's socket is for
    socket,       \* whether it is open, which means subscribed
    wire,         \* messages published to the socket and not delivered
    loads,        \* fetches of a conversation in flight
    reply,        \* the operator's reply in flight
    unheard,      \* history: messages no socket carried to the end
    strays        \* history: what may have come up in this thread by mistake

chatVars ==
    <<log, unpublished, selected, shown, joined, socket, wire, loads, reply, unheard, strays>>

-----------------------------------------------------------------------------
Thread == Conversations \cup {NoConversation}

\* seen is what the server read for a fetch.
Fetch == [of : Conversations, answered : BOOLEAN, seen : SUBSET Messages]

Reply == [to : Thread, message : Messages \cup {NoMessage}, sending : BOOLEAN]
NoReply == [to |-> NoConversation, message |-> NoMessage, sending |-> FALSE]

ChatTypeOK ==
    /\ log \in [Conversations -> SUBSET Messages]
    /\ unpublished \in SUBSET Messages
    /\ selected \in Thread /\ joined \in Thread
    /\ shown \in SUBSET Messages
    /\ socket \in {"none", "closed", "open"}
    /\ wire \in SUBSET Messages
    /\ loads \in SUBSET Fetch
    /\ reply \in Reply
    /\ unheard \in SUBSET Messages
    /\ strays \in SUBSET Messages

ChatInit ==
    /\ log = [c \in Conversations |-> {}]
    /\ unpublished = {}
    /\ selected = NoConversation /\ joined = NoConversation
    /\ shown = {}
    /\ socket = "none"
    /\ wire = {}
    /\ loads = {}
    /\ reply = NoReply
    /\ unheard = {}
    /\ strays = {}

Written == UNION {log[c] : c \in Conversations}

-----------------------------------------------------------------------------
(* The server. *)

\* append_message and commit, for the other side, the assistant or the operator.
Commit(c, m) ==
    /\ m \notin Written
    /\ log' = [log EXCEPT ![c] = @ \cup {m}]
    /\ unpublished' = unpublished \cup {m}

OthersWrite(c, m) ==
    /\ Commit(c, m)
    /\ UNCHANGED <<selected, shown, joined, socket, wire, loads, reply, unheard, strays>>

\* The socket gets what is published to the conversation it has joined.
Hears(m) == socket = "open" /\ m \in log[joined]

\* The socket hears m for the thread on the screen, and no fetch that was read
\* before m is still on its way to replace the screen.
Carried(m) ==
    /\ Hears(m)
    /\ joined = selected
    /\ \A f \in loads : f.answered => m \in f.seen

\* publish_conversation_event; a failure is logged and forgotten.
PublishMessage(m, works) ==
    /\ m \in unpublished
    /\ unpublished' = unpublished \ {m}
    /\ wire' = IF works /\ Hears(m) THEN wire \cup {m} ELSE wire
    /\ unheard' = IF works /\ Carried(m) THEN unheard ELSE unheard \cup {m}
    /\ UNCHANGED <<log, selected, shown, joined, socket, loads, reply, strays>>

-----------------------------------------------------------------------------
(* The thread. *)

\* A conversation is clicked in the list, also while another one is fetched.
LoadThread(c) ==
    /\ Cardinality(loads) < MaxLoads
    /\ loads' = loads \cup {[of |-> c, answered |-> FALSE, seen |-> {}]}
    /\ UNCHANGED <<log, unpublished, selected, shown, joined, socket, wire, reply, unheard, strays>>

ServeThread(f) ==
    /\ ~f.answered
    /\ loads' = (loads \ {f}) \cup {[f EXCEPT !.answered = TRUE, !.seen = log[f.of]]}
    /\ UNCHANGED <<log, unpublished, selected, shown, joined, socket, wire, reply, unheard, strays>>

\* Mutant: the fetched messages are added to those on the screen.
AddedTo(f) == shown \cup f.seen

ReplacedBy(f) == f.seen

\* What the screen has by f for good: no older answer is still to come.
Secured(f) == {m \in f.seen : \A g \in loads \ {f} : g.answered => m \in g.seen}

\* The answer replaces what is on the screen, whatever was clicked since.  The
\* effects of the last change of the screen have run before the next one.
ShowThread(f) ==
    /\ f.answered
    /\ joined = selected
    /\ loads' = loads \ {f}
    /\ selected' = f.of
    /\ shown' = ReplacedBy(f)
    /\ strays' = IF reply.to # f.of THEN {reply.message} \ {NoMessage} ELSE {}
    /\ unheard' = unheard \ Secured(f)
    /\ UNCHANGED <<log, unpublished, joined, socket, wire, reply>>

\* The effect that follows: the socket of the former conversation is closed,
\* with what it had not brought yet, and one of the selected is opened.
SwitchSocket ==
    /\ joined # selected
    /\ joined' = selected
    /\ socket' = "closed"
    /\ wire' = {}
    /\ unheard' = unheard \cup wire
    /\ UNCHANGED <<log, unpublished, selected, shown, loads, reply, strays>>

\* An error answer, or none: the screen stays.
LoadFails(f) ==
    /\ loads' = loads \ {f}
    /\ UNCHANGED <<log, unpublished, selected, shown, joined, socket, wire, reply, unheard, strays>>

-----------------------------------------------------------------------------
(* The socket. *)

Connect ==
    /\ socket = "closed"
    /\ socket' = "open"
    /\ UNCHANGED <<log, unpublished, selected, shown, joined, wire, loads, reply, unheard, strays>>

Disconnect ==
    /\ socket = "open"
    /\ socket' = "closed"
    /\ wire' = {}
    /\ unheard' = unheard \cup wire
    /\ UNCHANGED <<log, unpublished, selected, shown, joined, loads, reply, strays>>

\* Mutant: what arrives during a reply of one's own is taken for its echo.
WithUnlessSending(m) == IF reply.sending THEN shown ELSE shown \cup {m}

With(m) == shown \cup {m}

\* The handler adds the message to the thread on the screen, also when the
\* effect has not yet closed the socket of the former one.
DeliverMessage(m) ==
    /\ m \in wire
    /\ wire' = wire \ {m}
    /\ shown' = With(m)
    /\ strays' = IF joined # selected THEN strays \cup {m} ELSE strays
    /\ UNCHANGED <<log, unpublished, selected, joined, socket, loads, reply, unheard>>

-----------------------------------------------------------------------------
(* The operator's reply. *)

SendReply ==
    /\ selected # NoConversation
    /\ ~reply.sending
    /\ reply' = [to |-> selected, message |-> NoMessage, sending |-> TRUE]
    /\ UNCHANGED <<log, unpublished, selected, shown, joined, socket, wire, loads, unheard, strays>>

ServeReply(m) ==
    /\ reply.sending
    /\ reply.message = NoMessage
    /\ Commit(reply.to, m)
    /\ reply' = [reply EXCEPT !.message = m]
    /\ strays' = IF reply.to # selected THEN strays \cup {m} ELSE strays
    /\ UNCHANGED <<selected, shown, joined, socket, wire, loads, unheard>>

\* The answer comes after the message was published, and is added to whatever
\* thread is on the screen by now.
ReplyAnswered ==
    /\ reply.message # NoMessage
    /\ reply.message \notin unpublished
    /\ shown' = shown \cup {reply.message}
    /\ reply' = NoReply
    /\ UNCHANGED <<log, unpublished, selected, joined, socket, wire, loads, unheard, strays>>

ReplyFails ==
    /\ reply.sending
    /\ reply' = NoReply
    /\ UNCHANGED <<log, unpublished, selected, shown, joined, socket, wire, loads, unheard, strays>>

ChatNext ==
    \/ \E c \in Conversations : LoadThread(c) \/ \E m \in Messages : OthersWrite(c, m)
    \/ \E m \in Messages :
        PublishMessage(m, TRUE) \/ PublishMessage(m, FALSE) \/ DeliverMessage(m) \/ ServeReply(m)
    \/ \E f \in loads : ServeThread(f) \/ ShowThread(f) \/ LoadFails(f)
    \/ SwitchSocket \/ Connect \/ Disconnect
    \/ SendReply \/ ReplyAnswered \/ ReplyFails

ChatSpec == ChatInit /\ [][ChatNext]_chatVars

-----------------------------------------------------------------------------
\* Once everything that was published has arrived, the screen has the whole
\* conversation, except messages that were published while no socket of the
\* conversation was open, while a fetch read before them was on its way, or that
\* a socket lost.
NothingElseMissed ==
    selected # NoConversation =>
        log[selected] \subseteq shown \cup wire \cup unpublished \cup unheard

\* No message of another conversation is on the screen, unless since this
\* thread was put there a reply to another one came back or was on its way, or
\* the socket of the former conversation brought it before the effect closed it.
ThreadUnmixed ==
    selected # NoConversation => shown \subseteq log[selected] \cup strays
=============================================================================
