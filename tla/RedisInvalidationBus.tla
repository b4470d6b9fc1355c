------------------------- MODULE RedisInvalidationBus -------------------------
(* RedisInvalidationBus: the stacks of one process share one subscription of *)
(* one Redis client. The first handler attaches a listener to the client and *)
(* sends SUBSCRIBE, the last one to go detaches it and sends UNSUBSCRIBE;    *)
(* calls of subscribe run one after the other.                               *)
EXTENDS Naturals, FiniteSets, Sequences

CONSTANTS Stacks,
          MaxMessages,  \* the bound on the number of messages
          MaxFailures   \* the bound on the number of failed SUBSCRIBEs

VARIABLES state,     \* what each stack has done with the bus
          turn,      \* the calls of subscribe that are not over, in order
          handlers,  \* the handlers, each named by its stack
          attached,  \* the listeners attached to the client
          shared,    \* sharedListener; 0 is undefined
          commands,  \* what the client has sent and not got a reply to
          channel,   \* whether the server has the client subscribed
          failures, sent,
          received,  \* history: how often the handler of a stack was called
          expected   \* history: how many messages it should have been called with

vars == <<state, turn, handlers, attached, shared, commands, channel, failures,
          sent, received, expected>>

Init ==
    /\ state = [s \in Stacks |-> "new"]
    /\ turn = << >> /\ handlers = {} /\ attached = {} /\ shared = 0
    /\ commands = << >> /\ channel = FALSE
    /\ failures = 0 /\ sent = 0
    /\ received = [s \in Stacks |-> 0] /\ expected = [s \in Stacks |-> 0]

(* subscribe: the call joins the chain of subscribePromise.                  *)
Subscribe(s) ==
    /\ state[s] = "new"
    /\ state' = [state EXCEPT ![s] = "waiting"]
    /\ turn' = Append(turn, s)
    /\ UNCHANGED <<handlers, attached, shared, commands, channel, failures, sent,
                   received, expected>>

(* The first call is over: the next one may go on.                           *)
EndTurn == turn' = Tail(turn)

(* No call waits for another.                                                *)
AnyTurn(s) == state[s] = "waiting"

(* The calls before this one are over (previousPromise).                     *)
MyTurn(s) == state[s] = "waiting" /\ s = Head(turn)

Attach(s) ==
    /\ MyTurn(s)
    /\ IF handlers = {}
       THEN LET listener == Cardinality(attached) + failures + 1
            IN  /\ attached' = attached \cup {listener}
                /\ shared' = listener
                /\ commands' = Append(commands, [name |-> "SUBSCRIBE", by |-> s])
                /\ state' = [state EXCEPT ![s] = "subscribing"]
                /\ UNCHANGED <<turn, handlers>>
       ELSE /\ handlers' = handlers \cup {s}
            /\ state' = [state EXCEPT ![s] = "subscribed"]
            /\ EndTurn
            /\ UNCHANGED <<attached, shared, commands>>
    /\ UNCHANGED <<channel, failures, sent, received, expected>>

(* The function that subscribe returned.                                     *)
Unsubscribe(s) ==
    /\ state[s] = "subscribed"
    /\ state' = [state EXCEPT ![s] = "gone"]
    /\ handlers' = handlers \ {s}
    /\ IF handlers' = {} /\ shared # 0
       THEN /\ attached' = attached \ {shared}
            /\ shared' = 0
            /\ commands' = Append(commands, [name |-> "UNSUBSCRIBE", by |-> s])
       ELSE UNCHANGED <<attached, shared, commands>>
    /\ UNCHANGED <<turn, channel, failures, sent, received, expected>>

(* The server works off the commands of the client in order.                 *)
Subscribed ==
    /\ commands # << >> /\ Head(commands).name = "SUBSCRIBE"
    /\ commands' = Tail(commands)
    /\ channel' = TRUE
    /\ LET s == Head(commands).by
       IN  /\ handlers' = handlers \cup {s}
           /\ state' = [state EXCEPT ![s] = "subscribed"]
           /\ EndTurn
    /\ UNCHANGED <<attached, shared, failures, sent, received, expected>>

(* SUBSCRIBE fails: subscribe rejects and its listener stays attached.       *)
SubscribeFails ==
    /\ commands # << >> /\ Head(commands).name = "SUBSCRIBE"
    /\ failures < MaxFailures /\ failures' = failures + 1
    /\ commands' = Tail(commands)
    /\ LET s == Head(commands).by
       IN  state' = [state EXCEPT ![s] = "gone"] /\ EndTurn
    /\ UNCHANGED <<handlers, attached, shared, channel, sent, received, expected>>

Unsubscribed ==
    /\ commands # << >> /\ Head(commands).name = "UNSUBSCRIBE"
    /\ commands' = Tail(commands)
    /\ channel' = FALSE
    /\ UNCHANGED <<state, turn, handlers, attached, shared, failures, sent, received, expected>>

(* A message arrives: every attached listener dispatches it to every handler *)
(* (dispatchToHandlers; a handler that fails does not stop the others), a    *)
(* payload that is no valid invalidation message is dropped.                 *)
Message(valid) ==
    /\ sent < MaxMessages /\ sent' = sent + 1
    /\ IF valid
       THEN /\ expected' = [s \in Stacks |-> IF s \in handlers THEN expected[s] + 1 ELSE expected[s]]
            /\ received' = [s \in Stacks |->
                 IF channel /\ s \in handlers THEN received[s] + Cardinality(attached)
                                              ELSE received[s]]
       ELSE UNCHANGED <<received, expected>>
    /\ UNCHANGED <<state, turn, handlers, attached, shared, commands, channel, failures>>

Next ==
    \/ \E s \in Stacks : Subscribe(s) \/ Attach(s) \/ Unsubscribe(s)
    \/ Subscribed \/ SubscribeFails \/ Unsubscribed
    \/ \E valid \in BOOLEAN : Message(valid)

Spec == Init /\ [][Next]_vars

----------------------------------------------------------------------------
(* The handler of a stack whose subscribe has returned is called with every  *)
(* valid message, and once unless a SUBSCRIBE had failed before, however     *)
(* stacks come and go around it (subscribe is serialised, only the last      *)
(* handler detaches the listener).                                           *)
MessagesReachHandlers ==
    \A s \in Stacks : IF failures = 0 THEN received[s] = expected[s]
                                      ELSE received[s] >= expected[s]
=============================================================================
