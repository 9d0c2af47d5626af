----------------------------- MODULE FileRewatch -----------------------------
(***************************************************************************)
(* test862-inotify_remove_create: a program that watches a path through    *)
(* removals and creations of the file there.  A watch belongs to an inode: *)
(* when the inode is gone the kernel drops the watch and queues an event,  *)
(* IN_IGNORED, and the program watches the path again, or polls every      *)
(* second until there is a file.                                           *)
(***************************************************************************)
EXTENDS Naturals, Sequences

CONSTANTS
    Inodes,
    NoFile,         \* no inode: of a path that is free, of a watch that is gone
    QueueCap,       \* fs.inotify.max_queued_events
    ReadCap         \* events that fit in evbuf

ASSUME RewatchAssumption ==
    NoFile \notin Inodes /\ QueueCap \in Nat \ {0} /\ ReadCap \in Nat \ {0}

VARIABLES
    file,           \* the inode at the path
    elsewhere,      \* inodes that left the path and live on: moved, linked or open
    watched,        \* the inode the kernel watches
    wd,             \* the program believes it has a watch (wd # -1)
    queue,          \* events in the kernel
    evbuf,          \* events the program has read
    dropped,        \* history: an IN_IGNORED met a full queue
    stopped         \* the program has returned with an error

rewatchVars == <<file, elsewhere, watched, wd, queue, evbuf, dropped, stopped>>
watcherVars == <<wd, evbuf, stopped>>

\* Events other than IN_IGNORED are printed and nothing else.
Event == {"ignored", "other"}

\* inotify_add_watch; an error that is not ENOENT stops the program.
AddWatch ==
    \/ /\ file # NoFile /\ watched' = file /\ wd' = TRUE /\ UNCHANGED stopped
    \/ /\ file = NoFile /\ wd' = FALSE /\ UNCHANGED <<watched, stopped>>
    \/ /\ file # NoFile /\ stopped' = TRUE /\ wd' = FALSE /\ UNCHANGED watched

RewatchInit ==
    /\ file \in Inodes \union {NoFile} /\ elsewhere = {}
    /\ watched = file /\ wd = (file # NoFile)
    /\ queue = <<>> /\ evbuf = <<>> /\ dropped = FALSE /\ stopped = FALSE

Put(e) == queue' = IF Len(queue) < QueueCap THEN Append(queue, e) ELSE queue

Create ==
    /\ file = NoFile
    /\ file' \in Inodes \ elsewhere
    /\ file' # watched
    /\ UNCHANGED <<elsewhere, watched, queue, dropped, watcherVars>>

\* The inode leaves the path: at once and for good, or it lives on for a while.
Leave(gone) ==
    /\ file # NoFile /\ file' = NoFile
    /\ elsewhere' = IF gone THEN elsewhere ELSE elsewhere \union {file}
    /\ IF file # watched THEN UNCHANGED <<watched, queue, dropped>>
       ELSE IF gone
       THEN Put("ignored") /\ watched' = NoFile /\ dropped' = (dropped \/ queue' = queue)
       ELSE Put("other") /\ UNCHANGED <<watched, dropped>>
    /\ UNCHANGED watcherVars

\* The last reference to an inode that left the path is dropped.
Vanish ==
    /\ \E i \in elsewhere :
          /\ elsewhere' = elsewhere \ {i}
          /\ IF i = watched
             THEN Put("ignored") /\ watched' = NoFile /\ dropped' = (dropped \/ queue' = queue)
             ELSE UNCHANGED <<watched, queue, dropped>>
    /\ UNCHANGED <<file, watcherVars>>

\* The watched file is read, written, ...
Touch ==
    /\ watched # NoFile
    /\ Put("other")
    /\ UNCHANGED <<file, elsewhere, watched, dropped, watcherVars>>

\* poll tells of events, and read takes as many as fit.
ReadEvents ==
    /\ ~stopped /\ evbuf = <<>> /\ queue # <<>>
    /\ LET n == IF Len(queue) < ReadCap THEN Len(queue) ELSE ReadCap
       IN  evbuf' = SubSeq(queue, 1, n) /\ queue' = SubSeq(queue, n + 1, Len(queue))
    /\ UNCHANGED <<file, elsewhere, watched, wd, dropped, stopped>>

\* Mutant: IN_IGNORED is printed like any other event.
TakeEventNoAdd ==
    /\ ~stopped /\ evbuf # <<>>
    /\ evbuf' = Tail(evbuf)
    /\ UNCHANGED <<file, elsewhere, watched, wd, queue, dropped, stopped>>

\* One event of the buffer.
TakeEvent ==
    /\ ~stopped /\ evbuf # <<>>
    /\ evbuf' = Tail(evbuf)
    /\ IF Head(evbuf) = "ignored" THEN AddWatch ELSE UNCHANGED <<watched, wd, stopped>>
    /\ UNCHANGED <<file, elsewhere, queue, dropped>>

\* poll times out.
PollTimeout ==
    /\ ~stopped /\ evbuf = <<>> /\ queue = <<>> /\ ~wd
    /\ AddWatch
    /\ UNCHANGED <<file, elsewhere, queue, evbuf, dropped>>

RewatchSteps == ReadEvents \/ TakeEvent \/ PollTimeout

RewatchNext ==
    \/ RewatchSteps
    \/ Create \/ Leave(TRUE) \/ Leave(FALSE) \/ Vanish \/ Touch

-----------------------------------------------------------------------------

\* A file that stays at the path comes to be watched, unless the watched inode lives
\* on elsewhere (the watch stays with it) or the queue had no place for IN_IGNORED
\* (main, 51-64 and 104-117).
FileComesWatched ==
    file # NoFile ~> \/ file = NoFile \/ watched = file
                     \/ watched \in elsewhere
                     \/ dropped \/ stopped
=============================================================================
