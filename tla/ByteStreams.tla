----------------------------- MODULE ByteStreams ----------------------------
(***************************************************************************)
(* What pipes promise: each is a bounded first-in first-out stream of      *)
(* bytes, into which a write puts bytes in one or several pieces, and out  *)
(* of which a read takes some of what is there.  A stream that is closed   *)
(* at both ends is gone, with what was in it, and another one may begin.   *)
(***************************************************************************)
EXTENDS Naturals, Sequences

CONSTANTS Streams, Bytes, Capacity

VARIABLES stream,   \* the bytes on their way
          open      \* the ends that are open: "read", "write"

streamVars == <<stream, open>>

Init == /\ stream = [k \in Streams |-> <<>>]
        /\ open = [k \in Streams |-> {}]

Create(k) == /\ open[k] = {}
             /\ open' = [open EXCEPT ![k] = {"read", "write"}]
             /\ stream' = [stream EXCEPT ![k] = <<>>]

\* m bytes b are appended by somebody who holds the write end.
Put(k, m, b) == /\ "write" \in open[k]
                /\ Len(stream[k]) + m <= Capacity
                /\ stream' = [stream EXCEPT ![k] = @ \o [i \in 1 .. m |-> b]]
                /\ UNCHANGED open

\* The first m bytes are taken.
Take(k, m) == /\ "read" \in open[k]
              /\ m <= Len(stream[k])
              /\ stream' = [stream EXCEPT ![k] = SubSeq(@, m + 1, Len(@))]
              /\ UNCHANGED open

Close(k, end) == /\ end \in open[k]
                 /\ open' = [open EXCEPT ![k] = @ \ {end}]
                 /\ stream' = IF open[k] = {end} THEN [stream EXCEPT ![k] = <<>>] ELSE stream

Next == \E k \in Streams :
          \/ Create(k)
          \/ \E m \in 1 .. Capacity : Take(k, m) \/ \E b \in Bytes : Put(k, m, b)
          \/ \E end \in {"read", "write"} : Close(k, end)

Spec == Init /\ [][Next]_streamVars
=============================================================================
