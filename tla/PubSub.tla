------------------------------- MODULE PubSub -------------------------------
(***************************************************************************)
(* `ipfs pubsub` over the RPC API: a subscription is a request whose       *)
(* handler passes on the node's messages (core/commands/pubsub.go, core/   *)
(* coreapi/pubsub.go); in the client a goroutine decodes them for Next     *)
(* (client/rpc/pubsub.go).  Topics travel in the URL, multibase encoded.   *)
(* The node's pubsub itself is external: it hands every subscription the   *)
(* messages on its topic, and drops those a slow one has no room for.      *)
(***************************************************************************)
EXTENDS Naturals, Sequences

CONSTANTS
  Topics,       \* topics, as bytes
  MaxMessages,  \* bound: how many messages are published
  SubBuffer     \* how many messages pubsub keeps for a subscription

ASSUME PubSubConstants == MaxMessages \in Nat /\ SubBuffer \in Nat

VARIABLES
  enabled,    \* pubsub is enabled and the node online
  published,  \* the topics of all messages so far
  subTopic,   \* the topic the caller asked for, and how it was encoded
  subHandler, \* [pc, topic, queue]; pc: "none", "next", "ended" or "refused"
  wire,       \* messages emitted and not decoded
  subLoop,    \* the client's goroutine: [pc, msg]; pc: "none", "decode", "send" or "ended"
  subDone,    \* sub.done: "open" or "nil"
  subCtx,     \* the caller's context: "live" or "done"
  got         \* what Next returned

psVars == <<enabled, published, subTopic, subHandler, wire, subLoop, subDone, subCtx, got>>

NoMsg == [n |-> 0, topic |-> "none"]
ErrMsg == [n |-> 0, topic |-> "error"]

PubSubInit ==
  /\ enabled \in BOOLEAN /\ published = <<>>
  /\ subTopic \in [topic : Topics, base : {"base64url", "base64", "raw"}]
  /\ subHandler = [pc |-> "none", topic |-> "none", queue |-> <<>>]
  /\ wire = <<>> /\ subLoop = [pc |-> "none", msg |-> NoMsg]
  /\ subDone = "nil" /\ subCtx = "live" /\ got = <<>>

\* What a URL does to an argument: only base64url is safe in it.
ThroughUrl(arg) == IF arg.base = "base64" THEN [arg EXCEPT !.topic = "mangled"] ELSE arg

\* urlArgsDecoder: what is not multibase, or not base64url, is refused.
UrlArgsDecoder(arg) == IF arg.base = "base64url" THEN arg.topic ELSE "refused"

\* Publish: a message to the node's pubsub; it is in the queue of a subscription to
\* its topic, or dropped when that is full.
Publish(arg) ==
  LET topic == UrlArgsDecoder(ThroughUrl(arg)) IN
  /\ enabled /\ Len(published) < MaxMessages
  /\ topic # "refused"
  /\ published' = Append(published, topic)
  /\ subHandler' = IF subHandler.pc = "next" /\ subHandler.topic = topic
                        /\ Len(subHandler.queue) < SubBuffer
                   THEN [subHandler EXCEPT !.queue = Append(@, [n |-> Len(published) + 1, topic |-> topic])]
                   ELSE subHandler
  /\ UNCHANGED <<enabled, subTopic, wire, subLoop, subDone, subCtx, got>>

\* Subscribe: the request, and checkNode on the other side.
Subscribe ==
  /\ subHandler.pc = "none"
  /\ LET topic == UrlArgsDecoder(ThroughUrl(subTopic)) IN
     IF enabled /\ topic # "refused"
     THEN /\ subHandler' = [subHandler EXCEPT !.pc = "next", !.topic = topic]
          /\ subLoop' = [subLoop EXCEPT !.pc = "decode"] /\ subDone' = "open"
     ELSE /\ subHandler' = [subHandler EXCEPT !.pc = "refused"] /\ UNCHANGED <<subLoop, subDone>>
  /\ UNCHANGED <<enabled, published, subTopic, wire, subCtx, got>>

\* The response was cancelled, or its context ended.
ResponseGone == subDone = "nil" \/ subCtx = "done"

\* The handler's Next and Emit.
SubEmit ==
  /\ subHandler.pc = "next" /\ subHandler.queue # <<>>
  /\ wire' = Append(wire, Head(subHandler.queue))
  /\ subHandler' = [subHandler EXCEPT !.queue = Tail(@)]
  /\ UNCHANGED <<enabled, published, subTopic, subLoop, subDone, subCtx, got>>

\* The request's context is cancelled: Next fails, or Emit does, and the deferred
\* Close cancels the node's subscription.
SubCancelled ==
  /\ subHandler.pc = "next" /\ ResponseGone
  /\ subHandler' = [subHandler EXCEPT !.pc = "ended", !.queue = <<>>]
  /\ UNCHANGED <<enabled, published, subTopic, wire, subLoop, subDone, subCtx, got>>

\* The client's goroutine decodes a message.
SubDecode ==
  /\ subLoop.pc = "decode" /\ wire # <<>> /\ ~ResponseGone
  /\ subLoop' = [pc |-> "send", msg |-> Head(wire)] /\ wire' = Tail(wire)
  /\ UNCHANGED <<enabled, published, subTopic, subHandler, subDone, subCtx, got>>

\* The decoder's error is a message too; io.EOF, when the handler has ended, is the end.
SubDecodeError ==
  /\ subLoop.pc = "decode"
  /\ \/ ResponseGone /\ subLoop' = [pc |-> "send", msg |-> ErrMsg]
     \/ wire = <<>> /\ subHandler.pc = "ended" /\ subLoop' = [pc |-> "ended", msg |-> NoMsg]
  /\ UNCHANGED <<enabled, published, subTopic, subHandler, wire, subDone, subCtx, got>>

\* The select of the goroutine: the context (done: see SubClose).
SubLoopEnds ==
  /\ subLoop.pc = "send" /\ subCtx = "done"
  /\ subLoop' = [pc |-> "ended", msg |-> NoMsg]
  /\ UNCHANGED <<enabled, published, subTopic, subHandler, wire, subDone, subCtx, got>>

\* Next meets the goroutine's select: a message, or the error it carries.
SubNext ==
  /\ subLoop.pc = "send"
  /\ got' = IF subLoop.msg = ErrMsg THEN got ELSE Append(got, subLoop.msg)
  /\ subLoop' = [pc |-> "decode", msg |-> NoMsg]
  /\ UNCHANGED <<enabled, published, subTopic, subHandler, wire, subDone, subCtx>>

\* Close: done is closed and forgotten, the response cancelled.  A goroutine that
\* waits in its select has seen it; one that decodes will find nil there.
SubClose ==
  /\ subDone = "open"
  /\ subDone' = "nil"
  /\ subLoop' = IF subLoop.pc = "send" THEN [pc |-> "ended", msg |-> NoMsg] ELSE subLoop
  /\ UNCHANGED <<enabled, published, subTopic, subHandler, wire, subCtx, got>>

CallerCancels ==
  /\ subCtx = "live" /\ subCtx' = "done"
  /\ UNCHANGED <<enabled, published, subTopic, subHandler, wire, subLoop, subDone, got>>

PubSubStep == SubEmit \/ SubCancelled \/ SubDecode \/ SubDecodeError \/ SubLoopEnds
PubSubNext ==
  \/ \E t \in Topics : Publish([topic |-> t, base |-> "base64url"])
  \/ Subscribe \/ SubNext \/ SubClose \/ CallerCancels \/ PubSubStep

PubSubFairness ==
  /\ WF_psVars(SubEmit) /\ WF_psVars(SubCancelled) /\ WF_psVars(SubDecode)
  /\ WF_psVars(SubDecodeError) /\ SF_psVars(SubLoopEnds)
PubSubSpec == PubSubInit /\ [][PubSubNext]_psVars /\ PubSubFairness

----------------------------------------------------------------------------
(* Next gives messages on the topic the caller asked for only, whatever     *)
(* encoding the topic had in the URL, each once and in the order they were  *)
(* published (pubsub.go:344, client/rpc/pubsub.go:150).                     *)
GotOnTopic ==
  /\ \A i \in 1 .. Len(got) : got[i].topic = subTopic.topic /\ published[got[i].n] = subTopic.topic
  /\ \A i, j \in 1 .. Len(got) : i < j => got[i].n < got[j].n

(* A client that closes its subscription or cancels leaves no subscription  *)
(* in the node (pubsub.go:91).                                              *)
NodeUnsubscribes == (subHandler.pc = "next" /\ ResponseGone) ~> subHandler.pc = "ended"

(* The client's goroutine ends once the caller's context does, wherever it  *)
(* is then (client/rpc/pubsub.go:159); Close alone does not promise that.   *)
SubLoopGone == subCtx = "done" ~> subLoop.pc \in {"none", "ended"}

=============================================================================
