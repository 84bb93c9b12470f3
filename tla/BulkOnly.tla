------------------------------ MODULE BulkOnly -----------------------------
(***************************************************************************)
(* What a Bulk-Only mass-storage device promises its host: each command is *)
(* answered once, after its data, by a status that names the command and   *)
(* says how much of what was announced did not cross the bus.  The device  *)
(* moves no more than the host announced, nor than the command asks for.   *)
(* A command that a reset takes away, or that came in a bad wrapper, is     *)
(* never answered, and no data moves for it until the next command.        *)
(*                                                                         *)
(* How the device gets there (endpoint jobs, STALLs, the request to the    *)
(* main loop) is not seen here; UdiMscRefinement shows that UdiMsc does.   *)
(***************************************************************************)
EXTENDS Integers

CONSTANT Command    \* commands: records with at least len, need and tag

VARIABLES
    phase,      \* where the host is: "off", "idle", "busy" with a command, or
                \* "lost" until a reset recovery
    cmd,        \* the last command the host sent
    moved,      \* what has crossed the bus for it
    offered     \* the status the host can take: a set of at most one

vars == <<phase, cmd, moved, offered>>

\* The only status that may follow the command.
RightStatus == [tag |-> cmd.tag, residue |-> cmd.len - moved]

Init == phase = "off" /\ cmd \in Command /\ moved = 0 /\ offered = {}

\* The host finds the device.
Attach == /\ phase = "off"
          /\ phase' = "idle"
          /\ UNCHANGED <<cmd, moved, offered>>

\* A command that moves nothing may be answered at once.
Send == /\ phase = "idle" /\ offered = {}
        /\ phase' = "busy" /\ cmd' \in Command /\ moved' = 0
        /\ offered' \in {{}, {RightStatus'}}

\* A block or a reply crosses the bus, in either direction; a reply may have
\* its status right behind it.
Move == /\ phase = "busy" /\ offered = {}
        /\ moved < cmd.len /\ moved < cmd.need
        /\ moved' = moved + 1
        /\ offered' \in {{}, {RightStatus'}}
        /\ UNCHANGED <<phase, cmd>>

Offer == /\ phase = "busy" /\ offered = {}
         /\ offered' = {RightStatus}
         /\ UNCHANGED <<phase, cmd, moved>>

Take == /\ phase = "busy" /\ offered # {}
        /\ phase' = "idle" /\ offered' = {}
        /\ UNCHANGED <<cmd, moved>>

Next == Attach \/ Send \/ Move \/ Offer \/ Take

Spec == Init /\ [][Next]_vars

\* A bad wrapper is no command: nothing comes of it.
Spoil == /\ phase = "idle" /\ offered = {}
         /\ phase' = "lost" /\ cmd' \in Command /\ moved' = 0
         /\ UNCHANGED offered

\* A reset of the protocol, of the line or of the configuration takes the
\* command away, and the status that was offered for it.
Reset == /\ phase # "off"
         /\ phase' \in {"lost", "off", "idle"} /\ offered' = {}
         /\ UNCHANGED <<cmd, moved>>

\* The host has cleared both halts.
Recover == /\ phase = "lost"
           /\ phase' = "idle"
           /\ UNCHANGED <<cmd, moved, offered>>

ResetSpec == Init /\ [][Next \/ Spoil \/ Reset \/ Recover]_vars
=============================================================================
