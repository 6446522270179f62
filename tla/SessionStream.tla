---------------------------- MODULE SessionStream ----------------------------
(***************************************************************************)
(* What the control plane promises the client of one session: a stream     *)
(* that begins with the complete initial sync, goes on with the ordinary   *)
(* messages in order, and may end with one final message, after which      *)
(* nothing follows.  Messages are numbered 1, 2, 3, ...; the first         *)
(* InitialLen of them are the initial sync.                                *)
(***************************************************************************)
EXTENDS Integers, Sequences

CONSTANTS InitialLen, Final

VARIABLES phase,    \* "syncing", "live" or "ended"
          stream    \* what the client has been sent

streamVars == <<phase, stream>>

StreamInit == phase = "syncing" /\ stream = <<>>

DeliverNext == stream' = Append(stream, Len(stream) + 1) /\ UNCHANGED phase

DeliverInitial == phase = "syncing" /\ Len(stream) < InitialLen /\ DeliverNext

GoLive ==
  /\ phase = "syncing" /\ Len(stream) = InitialLen
  /\ phase' = "live" /\ UNCHANGED stream

DeliverLive == phase = "live" /\ DeliverNext

(* A kick, a ban or a rejection delivers its message; a lost client, a     *)
(* failed queue or a plain close does not.                                 *)
End ==
  /\ phase # "ended" /\ phase' = "ended"
  /\ stream' \in {stream, Append(stream, Final)}

StreamNext == DeliverInitial \/ GoLive \/ DeliverLive \/ End

StreamSpec == StreamInit /\ [][StreamNext]_streamVars

=============================================================================
