----------------------------- MODULE Ft601Host ------------------------------
(***************************************************************************)
(* The host at the other end of the FT601 (software/etherbone.py:18-36):   *)
(* it counts the words it gets, knows from the length in the header, here  *)
(* always Tags words, where the next packet begins, and expects the magic  *)
(* there, here word 0.  Nothing else delimits the packets.                 *)
(***************************************************************************)
EXTENDS Ft601

VARIABLE host        \* words of the packet received so far, or Lost

Lost == -1

HostInit == Init /\ host = 0

HostSync == host' = IF ~Takes \/ host = Lost THEN host
                    ELSE IF host = 0 /\ Sampled # 0 THEN Lost
                    ELSE (host + 1) % Tags

HostNext == Next /\ HostSync

HostSpec == HostInit /\ [][HostNext]_<<vars, host>>

-----------------------------------------------------------------------------
(* software/etherbone.py:25, assert(magic == self.magic): what the host    *)
(* reads where a packet should begin is the magic.                         *)
HostInSync == host # Lost
=============================================================================
