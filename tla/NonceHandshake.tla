--------------------------- MODULE NonceHandshake ----------------------------
(***************************************************************************)
(* test497-nonce: clients and a UDP server that share a key prove it to    *)
(* each other in four datagrams.  The dispatcher of the server hands each  *)
(* datagram to the session of its sender, which it starts if there is      *)
(* none.  A session takes the first datagram for the nonce of the client   *)
(* and the second for the response, whatever they are.                     *)
(*                                                                         *)
(* The link may lose and repeat datagrams.  Errors of the sockets are left *)
(* out.  Nonces and challenges are fresh, so those of a session are its    *)
(* number, and an HMAC is the data it covers.  Fewer datagrams than the 32 *)
(* that recv holds reach a session.                                        *)
(***************************************************************************)
EXTENDS Integers, Sequences

CONSTANTS
    Hosts,          \* the clients, each with an address of its own
    NoSess,         \* no session: before the challenge; no entry in the map
    MaxSess,        \* bound on the sessions ever started
    MaxCopies       \* bound on repeated datagrams

SessId == 1 .. MaxSess

ASSUME NonceAssumption ==
    NoSess \notin SessId /\ MaxSess \in Nat /\ MaxCopies \in Nat /\ Hosts # {}

VARIABLES
    client,         \* client[h]: where the client is, or its result
    accepted,       \* accepted[h]: the session whose challenge it has answered
    toServer,       \* datagrams <<h, b>> on their way; b is a Body
    toClient,       \* datagrams <<h, kind, s>> on their way
    sessMap,        \* sessions: the session of each client
    handing,        \* what the dispatcher is about to send: <<s, b>>, or <<>>
    host,           \* host[s]: the client of session s; sessions 1 .. Len(host) exist
    recv,           \* recv[s]: its channel
    sess,           \* sess[s]: where the session is, or its result
    first,          \* first[s]: what it took for the nonce of the client
    copies,         \* datagrams repeated so far
    lostAny         \* history: a datagram was lost

nonceVars == <<client, accepted, toServer, toClient, sessMap, handing, host, recv, sess,
               first, copies, lostAny>>

\* A client sends its nonce, and then the response to the challenge of a session.
Nonce == 0
Body == {Nonce} \union SessId

NonceInit ==
    /\ client = [h \in Hosts |-> "off"]
    /\ accepted = [h \in Hosts |-> NoSess]
    /\ toServer = {} /\ toClient = {}
    /\ sessMap = [h \in Hosts |-> NoSess]
    /\ handing = <<>> /\ host = <<>>
    /\ recv = [s \in SessId |-> <<>>]
    /\ sess = [s \in SessId |-> "nonce"]
    /\ first = [s \in SessId |-> Nonce]
    /\ copies = 0 /\ lostAny = FALSE

\* The datagram m is taken from the link, or a copy of it is to arrive later.
From(link, m, rest) ==
    /\ m \in link
    /\ \/ rest = link \ {m} /\ UNCHANGED copies
       \/ copies < MaxCopies /\ copies' = copies + 1 /\ rest = link

-----------------------------------------------------------------------------
(* The server.                                                              *)

Existing == 1 .. Len(host)

Dispatch(h, b) ==
    /\ handing = <<>>
    /\ From(toServer, <<h, b>>, toServer')
    /\ IF sessMap[h] = NoSess
       THEN /\ Len(host) < MaxSess
            /\ host' = Append(host, h)
            /\ sessMap' = [sessMap EXCEPT ![h] = Len(host')]
       ELSE UNCHANGED <<host, sessMap>>
    /\ handing' = <<sessMap'[h], b>>
    /\ UNCHANGED <<client, accepted, toClient, recv, sess, first, lostAny>>

\* The send to the channel comes after the unlock: the session may be over by then.
HandOver ==
    /\ handing # <<>>
    /\ recv' = [recv EXCEPT ![handing[1]] = Append(@, handing[2])]
    /\ handing' = <<>>
    /\ UNCHANGED <<client, accepted, toServer, toClient, sessMap, host, sess, first,
                   copies, lostAny>>

\* The session takes a datagram from its channel and goes on to state st.
Takes(s, st) ==
    /\ s \in Existing /\ recv[s] # <<>>
    /\ recv' = [recv EXCEPT ![s] = Tail(@)]
    /\ sess' = [sess EXCEPT ![s] = st]
    /\ UNCHANGED <<client, accepted, toServer, sessMap, handing, host, copies, lostAny>>

Challenge(s) ==
    /\ sess[s] = "nonce"
    /\ Takes(s, "response")
    /\ first' = [first EXCEPT ![s] = Head(recv[s])]
    /\ toClient' = toClient \union {<<host[s], "challenge", s>>}

\* The HMAC covers the nonce of the client and the challenge of this session.
Right(s, b) == b = s /\ first[s] = Nonce

\* Mutant: any response of the right length will do.
VerifyLength(s) ==
    /\ sess[s] = "response"
    /\ Takes(s, IF Head(recv[s]) # Nonce THEN "ok" ELSE "failed")
    /\ toClient' = IF sess'[s] = "ok" THEN toClient \union {<<host[s], "mac", s>>} ELSE toClient
    /\ UNCHANGED first

Verify(s) ==
    /\ sess[s] = "response"
    /\ Takes(s, IF Right(s, Head(recv[s])) THEN "ok" ELSE "failed")
    /\ toClient' = IF sess'[s] = "ok" THEN toClient \union {<<host[s], "mac", s>>} ELSE toClient
    /\ UNCHANGED first

\* The goroutine of the session deletes its entry.
Forget(s) ==
    /\ s \in Existing /\ sess[s] \in {"ok", "failed"} /\ sessMap[host[s]] = s
    /\ sessMap' = [sessMap EXCEPT ![host[s]] = NoSess]
    /\ UNCHANGED <<client, accepted, toServer, toClient, handing, host, recv, sess, first,
                   copies, lostAny>>

-----------------------------------------------------------------------------
(* A client.                                                                *)

Begin(h) ==
    /\ client[h] = "off"
    /\ client' = [client EXCEPT ![h] = "challenge"]
    /\ toServer' = toServer \union {<<h, Nonce>>}
    /\ UNCHANGED <<accepted, toClient, sessMap, handing, host, recv, sess, first, copies, lostAny>>

\* A datagram of another length than the one that is due ends the client.
OnChallenge(h, s) ==
    /\ From(toClient, <<h, "challenge", s>>, toClient')
    /\ IF client[h] = "challenge"
       THEN /\ client' = [client EXCEPT ![h] = "mac"]
            /\ accepted' = [accepted EXCEPT ![h] = s]
            /\ toServer' = toServer \union {<<h, s>>}
       ELSE /\ client' = [client EXCEPT ![h] = IF @ = "mac" THEN "failed" ELSE @]
            /\ UNCHANGED <<accepted, toServer>>
    /\ UNCHANGED <<sessMap, handing, host, recv, sess, first, lostAny>>

OnMac(h, s) ==
    /\ From(toClient, <<h, "mac", s>>, toClient')
    /\ client' = [client EXCEPT ![h] =
           CASE @ = "mac" /\ accepted[h] = s /\ first[s] = Nonce -> "ok"
             [] @ \in {"ok", "failed"} -> @
             [] OTHER -> "failed"]
    /\ UNCHANGED <<accepted, toServer, sessMap, handing, host, recv, sess, first, lostAny>>

LoseDatagram ==
    /\ \/ \E m \in toServer : toServer' = toServer \ {m} /\ UNCHANGED toClient
       \/ \E m \in toClient : toClient' = toClient \ {m} /\ UNCHANGED toServer
    /\ lostAny' = TRUE
    /\ UNCHANGED <<client, accepted, sessMap, handing, host, recv, sess, first, copies>>

-----------------------------------------------------------------------------

ServerSteps ==
    \/ HandOver
    \/ \E h \in Hosts : \E b \in Body : Dispatch(h, b)
    \/ \E s \in Existing : Challenge(s) \/ Verify(s) \/ Forget(s)

ClientSteps(h) == Begin(h) \/ \E s \in SessId : OnChallenge(h, s) \/ OnMac(h, s)

NonceNext == ServerSteps \/ LoseDatagram \/ \E h \in Hosts : ClientSteps(h)

NonceFairness ==
    WF_nonceVars(ServerSteps) /\ \A h \in Hosts : WF_nonceVars(ClientSteps(h))

-----------------------------------------------------------------------------

\* A session ends well only for the client that answered its own challenge, so that
\* no repeated datagrams make a second one ("Replay attack won't work as long as nonce
\* and challenge values are unique", NOTES.md), and a client ends well only with a session
\* that did (161-187, 207-236).
SessionsGenuine == \A s \in Existing : sess[s] = "ok" => accepted[host[s]] = s
ClientsGenuine == \A h \in Hosts : client[h] = "ok" => sess[accepted[h]] = "ok"

\* Nobody is taken for another, and sessions and clients are done with each other unless
\* a datagram was lost, for nobody asks again, or repeated, for a session dies of a
\* second nonce and a client of a second challenge.
HandshakeHolds ==
    /\ []SessionsGenuine
    /\ []ClientsGenuine
    /\ <>[](copies > 0 \/ lostAny \/ \A h \in Hosts : client[h] = "ok")
=============================================================================
