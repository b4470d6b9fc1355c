------------------------------ MODULE Instances ------------------------------
(* Several cache stacks, each with a MemoryLayer of its own, over one shared *)
(* layer and an invalidation bus: a write or a delete is published after the *)
(* layers answered, and every other instance then drops its local copy       *)
(* (CacheStack.publishInvalidation, handleInvalidationMessage). One key; the *)
(* values are the numbers of the sets that wrote them.                       *)
(*                                                                           *)
(* A call of an instance runs in steps; layer 2 answers when it pleases, and *)
(* messages arrive in the channel's order. Within an instance the calls run  *)
(* one at a time here (their interleaving is the subject of CacheStack);     *)
(* fenced says that the key's epoch was bumped since the call took its fence *)
(* (EpochFence proves that this is what a fence detects).                    *)
EXTENDS Naturals, FiniteSets, Sequences

CONSTANTS Instance, MaxCalls   \* the bound on the number of calls

VARIABLES remote,     \* the value in layer 2
          local,      \* local[i]: the value in the MemoryLayer of i
          status,     \* status[i]: "starting", "on" or "off"
          call,       \* call[i]: the call i runs
          inbox,      \* inbox[i]: the senders of the messages on their way to i
          calls,      \* how many calls have started
          settled,    \* history: the sets that have returned
          overtaken   \* history: those a later call overtook and returned

vars == <<remote, local, status, call, inbox, calls, settled, overtaken>>

Absent == 0
Idle == [op |-> "none", pc |-> "idle", value |-> Absent, fenced |-> FALSE, prior |-> {}]

Init ==
    /\ remote = Absent
    /\ local = [i \in Instance |-> Absent]
    /\ status = [i \in Instance |-> "starting"]
    /\ call = [i \in Instance |-> Idle]
    /\ inbox = [i \in Instance |-> <<>>]
    /\ calls = 0 /\ settled = {} /\ overtaken = {}

(* The instance's lifecycle ------------------------------------------------*)

(* initialize: the instance listens on the bus.                              *)
Subscribe(i) ==
    /\ status[i] = "starting"
    /\ status' = [status EXCEPT ![i] = "on"]
    /\ UNCHANGED <<remote, local, call, inbox, calls, settled, overtaken>>

(* disconnect: no new calls, no more messages; running calls go on.          *)
Disconnect(i) ==
    /\ status[i] = "on"
    /\ status' = [status EXCEPT ![i] = "off"]
    /\ inbox' = [inbox EXCEPT ![i] = <<>>]
    /\ UNCHANGED <<remote, local, call, calls, settled, overtaken>>

(* A new stack in the place of one that is done.                             *)
Restart(i) ==
    /\ status[i] = "off" /\ call[i] = Idle
    /\ status' = [status EXCEPT ![i] = "starting"]
    /\ local' = [local EXCEPT ![i] = Absent]
    /\ UNCHANGED <<remote, call, inbox, calls, settled, overtaken>>

(* Calls -------------------------------------------------------------------*)

(* awaitStartup: a call starts once the instance is subscribed and before    *)
(* it disconnects.                                                           *)
Ready(i) ==
    status[i] = "on"

Begin(i, op, value) ==
    /\ Ready(i) /\ call[i] = Idle
    /\ calls < MaxCalls
    /\ calls' = calls + 1
    /\ call' = [call EXCEPT ![i] = [op |-> op, pc |-> "waiting", value |-> value,
                                    fenced |-> FALSE, prior |-> settled]]
    /\ UNCHANGED <<remote, status, inbox, settled, overtaken>>

(* set writes the MemoryLayer at once and asks layer 2; delete likewise.     *)
Set(i) == Begin(i, "set", calls + 1) /\ local' = [local EXCEPT ![i] = calls + 1]

Delete(i) == Begin(i, "delete", Absent) /\ local' = [local EXCEPT ![i] = Absent]

(* A get that misses the MemoryLayer asks layer 2.                           *)
Get(i) == local[i] = Absent /\ Begin(i, "get", Absent) /\ UNCHANGED local

(* Layer 2 carries out the request: a write, a delete, the delete of a       *)
(* cleanup, or a read.                                                       *)
Land(i) ==
    LET c == call[i]
    IN  /\ c.pc \in {"waiting", "cleaning"}
        /\ remote' = IF c.op = "get" THEN remote
                     ELSE IF c.pc = "cleaning" THEN Absent ELSE c.value
        /\ call' = [call EXCEPT ![i].pc = IF @ = "cleaning" THEN "cleaned" ELSE "answered",
                                ![i].value = IF c.op = "get" THEN remote ELSE @]
        /\ UNCHANGED <<local, status, inbox, calls, settled, overtaken>>

(* The call is over, and overtakes the sets in over.                         *)
Return(i, over) ==
    /\ call' = [call EXCEPT ![i] = Idle]
    /\ settled' = IF call[i].op = "set" THEN settled \cup {call[i].value} ELSE settled
    /\ overtaken' = overtaken \cup over

(* A message reaches the instances that are subscribed.                      *)
Send(i) ==
    inbox' = [j \in Instance |-> IF status[j] = "on" /\ j # i THEN Append(inbox[j], i) ELSE inbox[j]]

(* Only sets are published.                                                  *)
PublishSetsOnly(i) ==
    /\ call[i].pc = "answered" /\ call[i].op # "get"
    /\ call[i].op = "set" => ~call[i].fenced
    /\ IF call[i].op = "set" THEN Send(i) ELSE UNCHANGED inbox
    /\ Return(i, call[i].prior)
    /\ UNCHANGED <<remote, local, status, calls>>

(* The layers answered: a set or delete that was not outdated is published;  *)
(* it overtakes what returned before it began. (A set that was outdated and  *)
(* cleaned up overtakes nothing: see the README on late messages.)           *)
Publish(i) ==
    /\ call[i].pc = "answered" /\ call[i].op # "get"
    /\ call[i].op = "set" => ~call[i].fenced
    /\ Send(i)
    /\ Return(i, call[i].prior)
    /\ UNCHANGED <<remote, local, status, calls>>

(* A set that was outdated while it ran deletes what it wrote.               *)
CleanUp(i) ==
    /\ call[i].pc = "answered" /\ call[i].op = "set" /\ call[i].fenced
    /\ local' = [local EXCEPT ![i] = Absent]
    /\ call' = [call EXCEPT ![i].pc = "cleaning"]
    /\ UNCHANGED <<remote, status, inbox, calls, settled, overtaken>>

(* A get that found a value stores it in the MemoryLayer unless outdated.    *)
Backfill(i) ==
    /\ call[i].pc = "answered" /\ call[i].op = "get"
    /\ call[i].value # Absent /\ ~call[i].fenced
    /\ local' = [local EXCEPT ![i] = call[i].value]
    /\ call' = [call EXCEPT ![i].pc = "stored"]
    /\ UNCHANGED <<remote, status, inbox, calls, settled, overtaken>>

(* The last step of a get, or of a set that cleaned up. A backfill that was  *)
(* outdated meanwhile is deleted again.                                      *)
Finish(i) ==
    /\ \/ call[i].op = "get" /\ call[i].pc = "answered" /\ (call[i].value = Absent \/ call[i].fenced)
       \/ call[i].pc \in {"stored", "cleaned"}
    /\ local' = IF call[i].pc = "stored" /\ call[i].fenced THEN [local EXCEPT ![i] = Absent] ELSE local
    /\ Return(i, {})
    /\ UNCHANGED <<remote, status, inbox, calls>>

(* Messages ----------------------------------------------------------------*)

(* handleInvalidationMessage of a write or a delete: bump the key's epoch,   *)
(* then delete the key from the local layers.                                *)
Receive(i) ==
    /\ inbox[i] # <<>>
    /\ inbox' = [inbox EXCEPT ![i] = Tail(@)]
    /\ call' = [call EXCEPT ![i].fenced = call[i] # Idle]
    /\ local' = [local EXCEPT ![i] = Absent]
    /\ UNCHANGED <<remote, status, calls, settled, overtaken>>

(* The MemoryLayer evicts or expires the key, or layer 2 does.               *)
Lose ==
    /\ \/ \E i \in Instance : local[i] # Absent /\ local' = [local EXCEPT ![i] = Absent] /\ UNCHANGED remote
       \/ remote # Absent /\ remote' = Absent /\ UNCHANGED local
    /\ UNCHANGED <<status, call, inbox, calls, settled, overtaken>>

Next ==
    \/ \E i \in Instance :
        \/ Subscribe(i) \/ Disconnect(i) \/ Restart(i)
        \/ Set(i) \/ Delete(i) \/ Get(i)
        \/ Land(i) \/ Publish(i) \/ CleanUp(i) \/ Backfill(i) \/ Finish(i)
        \/ Receive(i)
    \/ Lose

Spec == Init /\ [][Next]_vars

----------------------------------------------------------------------------
Values == 0..calls

Call == [op : {"none", "set", "delete", "get"},
         pc : {"idle", "waiting", "answered", "cleaning", "cleaned", "stored"},
         value : Values, fenced : BOOLEAN, prior : SUBSET settled]

(* The instances hold values of their calls; only subscribed ones are sent   *)
(* messages.                                                                 *)
TypeOK ==
    /\ remote \in Values /\ local \in [Instance -> Values]
    /\ status \in [Instance -> {"starting", "on", "off"}]
    /\ call \in [Instance -> Call]
    /\ inbox \in [Instance -> Seq(Instance)]
    /\ \A i \in Instance : inbox[i] # <<>> => status[i] = "on"
    /\ calls \in Nat /\ settled \subseteq 1..calls /\ overtaken \subseteq settled

AtRest == \A i \in Instance : call[i] = Idle /\ inbox[i] = <<>>

(* Once all calls have returned and all messages were handled, no instance   *)
(* serves a value that a later set or delete of any instance replaced, from  *)
(* its MemoryLayer or from layer 2, nor another value than layer 2: a set    *)
(* that lost a race against another instance's leaves no copy behind         *)
(* (handleInvalidationMessage, Reader.backfill, LayerWriter's cleanup,       *)
(* awaitStartup).                                                            *)
NoOvertakenValueAtRest ==
    AtRest => \A i \in Instance : status[i] = "on" =>
        /\ local[i] \notin overtaken /\ remote \notin overtaken
        /\ remote # Absent => local[i] \in {Absent, remote}
=============================================================================
