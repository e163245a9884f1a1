------------------------------ MODULE Channels ------------------------------
(***************************************************************************)
(* The inbound channels besides web chat: MatrixWhatsAppAdapter            *)
(* (saap/gateway/matrix_whatsapp.py) and the signed webhook                *)
(* (saap/gateway/webhook.py).                                              *)
(*                                                                         *)
(* The homeserver keeps one timeline of messages, replies of the adapter   *)
(* included, which come back as echoes.  Its client hands each message to  *)
(* every registered callback and awaits one before the next, as matrix-nio *)
(* does.                                                                   *)
(***************************************************************************)
EXTENDS Naturals, Sequences, FiniteSets

CONSTANTS
  Rooms, Users,
  OwnUser,        \* own_user_id
  Messages,       \* bound on messages of users
  Listens,        \* bound on calls of listen()
  Clients,        \* tenants that send webhooks
  Secrets         \* shared secrets

ASSUME ChannelAssumption ==
  OwnUser \notin Users /\ Messages \in Nat /\ Listens \in Nat

VARIABLES
  timeline,    \* messages: [room, sender]
  mapped,      \* rooms the resolver knows a tenant for
  callbacks,   \* how many callbacks are registered
  handing,     \* the message being handed out, how many callbacks are still to
               \* have it, and whether resolve() of the current one has returned
               \* a tenant
  inbox,       \* _queue: places in the timeline
  inbound,     \* what listen() has yielded
  answering,   \* the events of a run being rendered, and the room
  secret,      \* the resolver's secret for each client
  posts,       \* the webhook request under way
  accepted     \* requests for which an InboundEvent was yielded

matrixVars == <<timeline, mapped, callbacks, handing, inbox, inbound, answering>>
webhookVars == <<secret, posts, accepted>>
channelVars == <<matrixVars, webhookVars>>

Nobody == [stage |-> "none"]
Fresh(n, left) == [message |-> n, left |-> left, known |-> FALSE]

ChannelInit ==
  /\ timeline = <<>> /\ mapped = {} /\ callbacks = 0 /\ handing = Fresh(0, 0)
  /\ inbox = <<>> /\ inbound = <<>> /\ answering = {}
  /\ secret = [c \in Clients |-> CHOOSE s \in Secrets : TRUE]
  /\ posts = Nobody /\ accepted = {}

-----------------------------------------------------------------------------
(* WhatsApp.                                                                *)

FromUsers(s) == Len(SelectSeq(s, LAMBDA m : m.sender # OwnUser))

Write(room, sender) ==
  /\ FromUsers(timeline) < Messages
  /\ timeline' = Append(timeline, [room |-> room, sender |-> sender])
  /\ UNCHANGED <<mapped, callbacks, handing, inbox, inbound, answering, webhookVars>>

\* StaticRoomTenantResolver.register().
RegisterRoom(room) ==
  /\ mapped' = mapped \cup {room} /\ room \notin mapped
  /\ UNCHANGED <<timeline, callbacks, handing, inbox, inbound, answering, webhookVars>>

\* listen() registers _on_message before it waits for the queue.  A message that
\* is being handed out may or may not reach the new callback too.
Listen ==
  /\ callbacks < Listens /\ callbacks' = callbacks + 1
  /\ \/ UNCHANGED handing
     \/ handing.left > 0 /\ handing' = [handing EXCEPT !.left = @ + 1]
  /\ UNCHANGED <<timeline, mapped, inbox, inbound, answering, webhookVars>>

\* The client takes the next message of the timeline.
TakeMessage ==
  /\ handing.left = 0 /\ handing.message < Len(timeline)
  /\ handing' = Fresh(handing.message + 1, callbacks)
  /\ UNCHANGED <<timeline, mapped, callbacks, inbox, inbound, answering, webhookVars>>

Handed == timeline[handing.message]
HandedOver == handing' = [handing EXCEPT !.left = @ - 1, !.known = FALSE]

\* Mutant: echoes are not told from messages.
OnOwnMessageToo ==
  /\ handing.left > 0 /\ ~ handing.known
  /\ Handed.sender = OwnUser
  /\ handing' = [handing EXCEPT !.known = TRUE]
  /\ UNCHANGED <<timeline, mapped, callbacks, inbox, inbound, answering, webhookVars>>

\* _on_message() ignores the adapter's own messages.
OnOwnMessage ==
  /\ handing.left > 0 /\ ~ handing.known
  /\ Handed.sender = OwnUser
  /\ HandedOver
  /\ UNCHANGED <<timeline, mapped, callbacks, inbox, inbound, answering, webhookVars>>

\* resolve() of the room; without a tenant the message is dropped.
ResolveRoom ==
  /\ handing.left > 0 /\ ~ handing.known
  /\ Handed.sender # OwnUser
  /\ IF Handed.room \in mapped THEN handing' = [handing EXCEPT !.known = TRUE] ELSE HandedOver
  /\ UNCHANGED <<timeline, mapped, callbacks, inbox, inbound, answering, webhookVars>>

PutInbound ==
  /\ handing.left > 0 /\ handing.known
  /\ inbox' = Append(inbox, handing.message)
  /\ HandedOver
  /\ UNCHANGED <<timeline, mapped, callbacks, inbound, answering, webhookVars>>

\* listen() yields; a run answers with events that render() is given.
YieldInbound(kinds) ==
  /\ inbox # <<>>
  /\ inbox' = Tail(inbox) /\ inbound' = Append(inbound, Head(inbox))
  /\ answering' = answering \cup
       {[n |-> Len(inbound'), room |-> timeline[Head(inbox)].room, events |-> kinds]}
  /\ UNCHANGED <<timeline, mapped, callbacks, handing, webhookVars>>

\* One event of render(): only a final one with text is sent, to the session's
\* room.
RenderEvent(a) ==
  /\ a \in answering
  /\ timeline' = IF Head(a.events) = "final"
                 THEN Append(timeline, [room |-> a.room, sender |-> OwnUser]) ELSE timeline
  /\ answering' = (answering \ {a}) \cup
       (IF Len(a.events) = 1 THEN {} ELSE {[a EXCEPT !.events = Tail(@)]})
  /\ UNCHANGED <<mapped, callbacks, handing, inbox, inbound, webhookVars>>

-----------------------------------------------------------------------------
(* The webhook.                                                             *)

\* A request names a client and is signed with some secret; `live` collects
\* the secrets the client has while it is checked.
Post(client, signed) ==
  /\ posts = Nobody
  /\ posts' = [stage |-> "resolving", client |-> client, signed |-> signed,
               live |-> {secret[client]}, known |-> secret[client]]
  /\ UNCHANGED <<secret, accepted, matrixVars>>

\* register() again, with another secret.
Rotate(client, s) ==
  /\ secret' = [secret EXCEPT ![client] = s]
  /\ posts' = IF posts # Nobody /\ posts.client = client
              THEN [posts EXCEPT !.live = @ \cup {s}] ELSE posts
  /\ UNCHANGED <<accepted, matrixVars>>

\* The resolver answers with the secret it has now.
ResolveClient ==
  /\ posts # Nobody /\ posts.stage = "resolving"
  /\ posts' = [posts EXCEPT !.stage = "verifying", !.known = secret[posts.client]]
  /\ UNCHANGED <<secret, accepted, matrixVars>>

\* verify_webhook_signature(), then WebhookAdapter.listen() yields the one event.
Verify ==
  /\ posts # Nobody /\ posts.stage = "verifying"
  /\ accepted' = IF posts.signed = posts.known THEN accepted \cup {posts} ELSE accepted
  /\ posts' = Nobody
  /\ UNCHANGED <<secret, matrixVars>>

WhatsAppNext ==
  \/ \E room \in Rooms, sender \in Users : Write(room, sender)
  \/ \E room \in Rooms : RegisterRoom(room)
  \/ Listen \/ TakeMessage \/ OnOwnMessage \/ ResolveRoom \/ PutInbound
  \/ \E kinds \in {<<"token", "final">>, <<"error">>} : YieldInbound(kinds)
  \/ \E a \in answering : RenderEvent(a)

WebhookNext ==
  \/ \E client \in Clients, s \in Secrets : Post(client, s) \/ Rotate(client, s)
  \/ ResolveClient \/ Verify

-----------------------------------------------------------------------------
\* What comes out of the queue is what users wrote in rooms of tenants, in the
\* order of the timeline and at most once for each listen(); the adapter never
\* answers itself, so a room has no more replies than inbound events.  A webhook
\* is accepted only if it was signed with a secret its client had while it was
\* checked, also when the secret is changed meanwhile.
InboundIsFifo ==
  LET all == inbound \o inbox IN
    /\ \A i \in DOMAIN all : timeline[all[i]].sender # OwnUser /\ timeline[all[i]].room \in mapped
    /\ \A i, j \in DOMAIN all : i < j => all[i] <= all[j]
    /\ \A n \in DOMAIN timeline : Cardinality({i \in DOMAIN all : all[i] = n}) <= callbacks
    /\ \A room \in Rooms :
         Cardinality({n \in DOMAIN timeline : timeline[n] = [room |-> room, sender |-> OwnUser]})
           <= Cardinality({i \in DOMAIN inbound : timeline[inbound[i]].room = room})
    /\ \A p \in accepted : p.signed \in p.live
=============================================================================
