------------------------------ MODULE Handshake ------------------------------
(***************************************************************************)
(* What the handshake of test520 promises: the five messages of the        *)
(* protocol comment (main.go 31-37) advance the two sides strictly in      *)
(* turn, whatever is lost, delayed, repeated or overtaken on the way.      *)
(* Nothing of the transport is visible here.                               *)
(***************************************************************************)
VARIABLES cst, sst

ClientStates == {"Start", "HelloDone", "End"}
ServerStates == {"Start", "AcceptClient", "HelloDone", "End"}

Init == cst = "Start" /\ sst = "Start"

\* ClientHello reaches the server.
Greet ==
    /\ cst = "Start" /\ sst = "Start"
    /\ sst' = "AcceptClient"
    /\ UNCHANGED cst

\* ServerHello reaches the client.
GreetBack ==
    /\ cst = "Start" /\ sst = "AcceptClient"
    /\ cst' = "HelloDone"
    /\ UNCHANGED sst

\* The client's Auth convinces the server.
AuthenticateClient ==
    /\ cst = "HelloDone" /\ sst = "AcceptClient"
    /\ sst' = "HelloDone"
    /\ UNCHANGED cst

\* The server's Auth convinces the client.
AuthenticateServer ==
    /\ cst = "HelloDone" /\ sst = "HelloDone"
    /\ cst' = "End"
    /\ UNCHANGED sst

\* The client's Ack releases the server.
Confirm ==
    /\ cst = "End" /\ sst = "HelloDone"
    /\ sst' = "End"
    /\ UNCHANGED cst

Next == Greet \/ GreetBack \/ AuthenticateClient \/ AuthenticateServer \/ Confirm

Spec == Init /\ [][Next]_<<cst, sst>>
=============================================================================
