------------------------------ MODULE RedisLayer ------------------------------
(* RedisLayer: one key of a process that uses Redis over one connection,     *)
(* which runs the commands in the order they were sent. The stack writes one *)
(* at a time (its write chain); reads run beside. Payloads are encoded and   *)
(* decoded asynchronously. A command that times out rejects and runs all the *)
(* same. Reads delete what they cannot decode and rewrite what an older      *)
(* serializer wrote.                                                         *)
EXTENDS Naturals, Sequences

CONSTANTS MaxWrites,     \* the bound on the number of writes
          MaxCommands,   \* the bound on the commands under way when a read starts
          Serializers    \* the formats the layer reads, the primary first

VARIABLES value,     \* the entry in Redis: the write it comes from, its format, whether it has a TTL
          conn,      \* the commands that were sent and have not run
          writer,    \* the write in progress: [op, id, pc]
          reader,    \* the read in progress: [pc, value]
          writes,    \* how many writes there were
          latest     \* history: the last write that was answered with success

vars == <<value, conn, writer, reader, writes, latest>>

Missing == [by |-> 0, format |-> "none", ttl |-> FALSE, rewritten |-> FALSE]
NoWrite == [op |-> "none", id |-> 0, pc |-> "idle"]
NoRead == [pc |-> "idle", value |-> Missing]

(* An earlier process left any entry.                                        *)
Init ==
    /\ \E f \in {"json", "msgpack", "garbage"}, t \in BOOLEAN :
         value = [Missing EXCEPT !.format = f, !.ttl = t]
    /\ conn = << >>
    /\ writer = NoWrite /\ reader = NoRead
    /\ writes = 0 /\ latest = 0

Primary == Head(Serializers)
Readable(v) == \E i \in DOMAIN Serializers : Serializers[i] = v.format
Command(op, from, v) == [op |-> op, from |-> from, value |-> v]
Send(cmd) == conn' = Append(conn, cmd)

(* The commands when the caller of one has stopped to wait for it.           *)
Deserted(from) ==
    [i \in DOMAIN conn |->
       IF conn[i].from = from THEN [conn[i] EXCEPT !.from = "nobody"] ELSE conn[i]]

(* Writes ------------------------------------------------------------------*)

MayWrite == writer.pc = "idle" /\ writes < MaxWrites

(* set: the payload is encoded,                                              *)
Set ==
    /\ MayWrite
    /\ writes' = writes + 1
    /\ writer' = [op |-> "set", id |-> writes + 1, pc |-> "encoding"]
    /\ UNCHANGED <<value, conn, reader, latest>>

(* then the command is sent, with or without a TTL.                          *)
SendSet(ttl) ==
    /\ writer.pc = "encoding"
    /\ Send(Command("set", "writer",
              [by |-> writer.id, format |-> Primary, ttl |-> ttl, rewritten |-> FALSE]))
    /\ writer' = [writer EXCEPT !.pc = "sent"]
    /\ UNCHANGED <<value, reader, writes, latest>>

(* delete, deleteMany.                                                       *)
Delete ==
    /\ MayWrite
    /\ writes' = writes + 1
    /\ writer' = [op |-> "delete", id |-> writes + 1, pc |-> "sent"]
    /\ Send(Command("set", "writer", Missing))
    /\ UNCHANGED <<value, reader, latest>>

(* runCommand: the caller is told that the command timed out.                *)
TimeOutWrite ==
    /\ \E i \in DOMAIN conn : conn[i].from = "writer"
    /\ conn' = Deserted("writer")
    /\ writer' = NoWrite
    /\ UNCHANGED <<value, reader, writes, latest>>

(* Reads -------------------------------------------------------------------*)

Read ==
    /\ reader.pc = "idle" /\ Len(conn) < MaxCommands
    /\ reader' = [NoRead EXCEPT !.pc = "getting"]
    /\ Send(Command("get", "reader", Missing))
    /\ UNCHANGED <<value, writer, writes, latest>>

(* deserializeOrDelete of the payload that was decoded: corrupted, in an     *)
(* older format or fine.                                                     *)
Decode ==
    /\ reader.pc = "decoding"
    /\ LET v == reader.value
       IN  CASE ~Readable(v) ->
                  Send(Command("set", "reader", Missing)) /\ reader' = [reader EXCEPT !.pc = "ending"]
             [] Readable(v) /\ v.format # Primary ->
                  Send(Command("pttl", "reader", Missing)) /\ reader' = [reader EXCEPT !.pc = "asking"]
             [] v.format = Primary -> reader' = NoRead /\ UNCHANGED conn
    /\ UNCHANGED <<value, writer, writes, latest>>

(* rewriteWithPrimarySerializer: a TTL of none, or no key at all, means that *)
(* the value is set without one.                                             *)
Rewrite ==
    /\ reader.pc = "rewriting"
    /\ Send(Command("set", "reader", [reader.value EXCEPT !.format = Primary, !.rewritten = TRUE]))
    /\ reader' = [reader EXCEPT !.pc = "ending"]
    /\ UNCHANGED <<value, writer, writes, latest>>

(* A timed-out get rejects the read, the later commands are given up.        *)
TimeOutRead ==
    /\ \E i \in DOMAIN conn : conn[i].from = "reader"
    /\ conn' = Deserted("reader")
    /\ reader' = NoRead
    /\ UNCHANGED <<value, writer, writes, latest>>

(* The server --------------------------------------------------------------*)

(* What the reader does with the reply to its command.                       *)
Replied(cmd) ==
    CASE cmd.op = "get" -> IF value = Missing THEN NoRead ELSE [pc |-> "decoding", value |-> value]
      [] cmd.op = "pttl" -> [pc |-> "rewriting", value |-> [reader.value EXCEPT !.ttl = value.ttl]]
      [] cmd.op = "set" -> NoRead

(* A write whose caller was told that it timed out is tried once more.       *)
RunRetries ==
    /\ conn # << >>
    /\ LET cmd == Head(conn)
       IN  /\ conn' = IF cmd.op = "set" /\ cmd.from = "nobody"
                      THEN Append(Tail(conn), [cmd EXCEPT !.from = "retried"]) ELSE Tail(conn)
           /\ value' = IF cmd.op = "set" THEN cmd.value ELSE value
           /\ reader' = IF cmd.from = "reader" THEN Replied(cmd) ELSE reader
           /\ IF cmd.from = "writer" THEN writer' = NoWrite /\ latest' = writer.id
              ELSE UNCHANGED <<writer, latest>>
    /\ UNCHANGED writes

(* The next command runs and its reply, if one still waits, arrives.         *)
Run ==
    /\ conn # << >> /\ conn' = Tail(conn)
    /\ LET cmd == Head(conn)
       IN  /\ value' = IF cmd.op = "set" THEN cmd.value ELSE value
           /\ reader' = IF cmd.from = "reader" THEN Replied(cmd) ELSE reader
           /\ IF cmd.from = "writer"
              THEN writer' = NoWrite /\ latest' = writer.id
              ELSE UNCHANGED <<writer, latest>>
    /\ UNCHANGED writes

(* The TTL of the entry is over.                                             *)
Expire ==
    /\ value.ttl
    /\ value' = Missing
    /\ UNCHANGED <<conn, writer, reader, writes, latest>>

Next ==
    \/ Set \/ Delete \/ \E ttl \in BOOLEAN : SendSet(ttl)
    \/ TimeOutWrite \/ Read \/ Decode \/ Rewrite \/ TimeOutRead \/ Run \/ Expire

Spec == Init /\ [][Next]_vars

----------------------------------------------------------------------------
(* Once a write was answered, Redis never again holds a value older than it, *)
(* rewrites apart: commands of earlier writes that timed out still run, but  *)
(* runCommand does not send them again and the connection keeps the order.   *)
AnsweredWritesAreLast == value # Missing /\ ~value.rewritten => value.by >= latest
=============================================================================
