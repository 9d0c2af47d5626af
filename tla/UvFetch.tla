------------------------------- MODULE UvFetch -------------------------------
(***************************************************************************)
(* test987-libuv_multi_tcp: three HTTP requests as callbacks on one libuv  *)
(* loop.  The loop ends when no request and no open stream is active, and  *)
(* main then closes it, frees it, and frees the contexts with the TCP      *)
(* handles in them, looking at no result.                                  *)
(***************************************************************************)
EXTENDS Naturals

CONSTANTS
    Jobs,           \* com, net, org
    MaxChunks       \* bound on the reads that bring a response

ASSUME ChunksAssumption == MaxChunks \in Nat

VARIABLES
    stage,          \* stage[j]: the callback job j waits for, or its result
    handle,         \* handle[j]: the state of its TCP handle
    content,        \* content[j]: chunks read so far
    refused,        \* history: jobs whose uv_tcp_connect failed at once
    unconnected,    \* history: jobs whose on_connect was told of an error
    uvLoop          \* running, closed, or freed although handles were open

uvVars == <<stage, handle, content, refused, unconnected, uvLoop>>

\* on_resolved, on_connect, on_write, on_read; finish_ok, finish_error.
Pending4 == {"resolve", "connect", "write", "read"}

UvInit ==
    /\ stage = [j \in Jobs |-> "resolve"]
    /\ handle = [j \in Jobs |-> "none"]
    /\ content = [j \in Jobs |-> 0]
    /\ refused = {} /\ unconnected = {} /\ uvLoop = "running"

At(j, s) == uvLoop = "running" /\ stage[j] = s
Enter(j, s) == stage' = [stage EXCEPT ![j] = s]
Turn(j, h) == handle' = [handle EXCEPT ![j] = h]

\* on_resolved; uv_tcp_connect may fail at once, and its result is not looked at.
OnResolved(j) ==
    /\ At(j, "resolve")
    /\ \/ Enter(j, "error") /\ UNCHANGED <<handle, refused>>
       \/ Enter(j, "connect") /\ Turn(j, "open") /\ UNCHANGED refused
       \/ Enter(j, "connect") /\ Turn(j, "open") /\ refused' = refused \union {j}
    /\ UNCHANGED <<content, unconnected, uvLoop>>

\* on_connect: an error leaves the handle open.
OnConnect(j) ==
    /\ At(j, "connect") /\ j \notin refused
    /\ \/ Enter(j, "error") /\ unconnected' = unconnected \union {j}
       \/ Enter(j, "write") /\ UNCHANGED unconnected
    /\ UNCHANGED <<handle, content, refused, uvLoop>>

\* on_write: an error closes it.
OnWrite(j) ==
    /\ At(j, "write")
    /\ \/ Enter(j, "error") /\ Turn(j, "closing")
       \/ Enter(j, "read") /\ UNCHANGED handle
    /\ UNCHANGED <<content, refused, unconnected, uvLoop>>

\* Mutant: a read error ends the job without uv_close.
OnReadErrorOpen(j) ==
    /\ At(j, "read")
    /\ Enter(j, "error")
    /\ UNCHANGED <<handle, content, refused, unconnected, uvLoop>>

\* on_read.
OnReadError(j) ==
    /\ At(j, "read")
    /\ Enter(j, "error") /\ Turn(j, "closing")
    /\ UNCHANGED <<content, refused, unconnected, uvLoop>>
OnReadEof(j) ==
    /\ At(j, "read")
    /\ Enter(j, "ok") /\ Turn(j, "closing")
    /\ UNCHANGED <<content, refused, unconnected, uvLoop>>
OnReadData(j) ==
    /\ At(j, "read") /\ content[j] < MaxChunks
    /\ content' = [content EXCEPT ![j] = @ + 1]
    /\ UNCHANGED <<stage, handle, refused, unconnected, uvLoop>>

Callback(j) ==
    OnResolved(j) \/ OnConnect(j) \/ OnWrite(j) \/ OnReadError(j) \/ OnReadEof(j) \/ OnReadData(j)

\* The loop closes the handles that uv_close was called for.
UvClosed(j) ==
    /\ uvLoop = "running" /\ handle[j] = "closing"
    /\ Turn(j, "closed")
    /\ UNCHANGED <<stage, content, refused, unconnected, uvLoop>>

\* uv_run returns; uv_loop_close fails (UV_EBUSY) if there is a handle left.
UvEnd ==
    /\ uvLoop = "running"
    /\ \A j \in Jobs : /\ stage[j] \in Pending4 => j \in refused
                       /\ handle[j] # "closing"
    /\ uvLoop' = IF \E j \in Jobs : handle[j] = "open" THEN "freed open" ELSE "closed"
    /\ UNCHANGED <<stage, handle, content, refused, unconnected>>

UvNext == (\E j \in Jobs : Callback(j) \/ UvClosed(j)) \/ UvEnd

-----------------------------------------------------------------------------

\* When main frees the loop every job has reported its end, but those whose connect
\* call failed at once; and the loop is freed with open handles exactly if some
\* connection failed, for on_connect alone does not close its handle (149-161).
LoopFreedClean ==
    uvLoop # "running" =>
        /\ \A j \in Jobs : stage[j] \in {"ok", "error"} <=> j \notin refused
        /\ \A j \in Jobs : handle[j] = "open" <=> j \in refused \union unconnected
        /\ uvLoop = "freed open" <=> refused \union unconnected # {}
=============================================================================
