----------------------------- MODULE MCSessions ------------------------------
(***************************************************************************)
(* One run of TLC for the UDP servers that keep a session per peer: an     *)
(* initial state chooses the program that runs, and the variables of the   *)
(* others stay as they were.                                               *)
(***************************************************************************)
EXTENDS UdpSession, UdpForward, NonceHandshake

VARIABLE program

Programs == {"echo", "forward", "nonce"}

MCInit == program \in Programs /\ Init /\ ForwardInit /\ NonceInit

\* The variables v belong to another program than p, or p is the one that runs.
Frozen(p, v) == IF program = p THEN TRUE ELSE UNCHANGED v

MCNext ==
    /\ \/ program = "echo" /\ Next
       \/ program = "forward" /\ ForwardNext
       \/ program = "nonce" /\ NonceNext
    /\ UNCHANGED program
    /\ Frozen("echo", vars) /\ Frozen("forward", forwardVars) /\ Frozen("nonce", nonceVars)

\* What each module assumes of its scheduler, when its program is the one that runs.
MCFairness ==
    /\ WF_vars(program = "echo" /\ Hand)
    /\ \A s \in SessionId : /\ WF_vars(program = "echo" /\ Session(s))
                            /\ WF_vars(program = "echo" /\ Tick(s))
    /\ WF_forwardVars(program = "forward" /\ MainSteps)
    /\ \A s \in ConnId : WF_forwardVars(program = "forward" /\ SessionSteps(s))
    /\ WF_nonceVars(program = "nonce" /\ ServerSteps)
    /\ \A h \in Hosts : WF_nonceVars(program = "nonce" /\ ClientSteps(h))

MCSpec == MCInit /\ [][MCNext]_<<program, vars, forwardVars, nonceVars>> /\ MCFairness

\* The handshake of NonceHandshake holds when it runs.
NonceHolds == program = "nonce" => HandshakeHolds
=============================================================================
