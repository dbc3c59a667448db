------------------------------- MODULE Files -------------------------------
(***************************************************************************)
(* luvcoro::file and the functions of luvcoro::fs (src/fs.cpp): coroutines *)
(* that await one file request after another.  A task runs the calls of    *)
(* its script in turn.  frames[t] is its stack of coroutines, the innermost*)
(* first; each frame has the name of the function, the place it has        *)
(* reached, its arguments and what it has gathered.  One task runs on the  *)
(* loop at a time (running).  The thread pool executes the requests in any *)
(* order, and a stop may come at any time: before a request starts, while  *)
(* it is queued (it is then cancelled), or after it has been executed (its *)
(* effect stays and the caller sees operation_cancelled).                  *)
(***************************************************************************)
EXTENDS FileSystem

CONSTANTS Tasks,
          Objects,    \* the luvcoro::file objects that the scripts use
          Scenarios,  \* records of the scripts of the tasks and the disk
          Stoppable,  \* tasks whose stop token may be stopped
          Chunk,      \* what read_all asks for at a time
          Original,   \* what the files hold that are only read
          None

Files == Objects \cup Tasks     \* a task's own: the local of read_file etc.

ASSUME FilesAssumption ==
    /\ Stoppable \subseteq Tasks /\ None \notin Tasks
    /\ \A s \in Scenarios : DOMAIN s.script = Tasks
    /\ Chunk \in Nat \ {0}

VARIABLES script,    \* the calls each task has still to make
          log,       \* the calls it has made, with their outcomes
          frames,    \* its coroutines
          request,   \* the request it waits for
          reply,     \* the outcome its running coroutine looks at
          running,   \* the task whose coroutine runs
          file,      \* fd_ (0 for none), offset_ and runtime_ of the file objects
          disk,
          stopped, posted, cancelReq

vars == <<script, log, frames, request, reply, running, file, disk, stopped,
          posted, cancelReq>>

Done(v) == [err |-> "none", val |-> v]
Throw(e) == [err |-> e, val |-> Num(0)]
Idle == [state |-> "none", call |-> <<>>]
\* A new file object.  One that has been moved from has a null runtime_.
Closed == [fd |-> 0, offset |-> 0, runtime |-> "set"]
MovedFrom == [Closed EXCEPT !.runtime = "null"]
Destroyed == [Closed EXCEPT !.runtime = "destroyed"]

Init ==
    /\ \E s \in Scenarios :
           /\ script = s.script
           /\ disk = [s.disk EXCEPT !.fds = [n \in Descriptors |-> 0]]
    /\ log = [t \in Tasks |-> <<>>] /\ frames = [t \in Tasks |-> <<>>]
    /\ request = [t \in Tasks |-> Idle] /\ reply = [t \in Tasks |-> Done(Num(0))]
    /\ running = None /\ file = [f \in Files |-> Closed]
    /\ stopped = {} /\ posted = {} /\ cancelReq = {}

stopVars == <<stopped, posted, cancelReq>>

-----------------------------------------------------------------------------
(* Coroutines *)

Frame(call) == [fn |-> call[1], at |-> "start", args |-> Tail(call), acc |-> <<>>]
Top(t) == Head(frames[t])
Arg(t, i) == Top(t).args[i]
At(t, fn, at) == running = t /\ Top(t).fn = fn /\ Top(t).at = at
Failed(t) == reply[t].err # "none"

Moved(t, at, acc) ==
    <<[Top(t) EXCEPT !.at = at, !.acc = acc]>> \o Tail(frames[t])

\* The function goes on at another place.
Goto(t, at, acc) ==
    /\ frames' = [frames EXCEPT ![t] = Moved(t, at, acc)]
    /\ UNCHANGED <<script, log, request, running, stopVars>>

\* co_await of another function, with the frame going on at `at' after it.
CallAcc(t, call, at, acc) ==
    /\ frames' = [frames EXCEPT ![t] = <<Frame(call)>> \o Moved(t, at, acc)]
    /\ UNCHANGED <<script, log, request, reply, running, file, disk, stopVars>>
Call(t, call, at) == CallAcc(t, call, at, Top(t).acc)

\* co_return, or an exception that leaves the function.
Leave(t, r) ==
    /\ frames' = [frames EXCEPT ![t] = Tail(@)]
    /\ reply' = [reply EXCEPT ![t] = r]
    /\ IF Len(frames[t]) = 1
       THEN /\ running' = None
            /\ log' = [log EXCEPT ![t] = Append(@, <<Head(script[t]), r>>)]
            /\ script' = [script EXCEPT ![t] = Tail(@)]
       ELSE UNCHANGED <<running, log, script>>
    /\ UNCHANGED <<request, stopVars>>
Return(t, r) == Leave(t, r) /\ UNCHANGED <<file, disk>>

\* co_await run_fs_request: a stopped token throws, and nothing is asked of
\* the file system.
Issue(t, call, at, acc) ==
    /\ frames' = [frames EXCEPT ![t] = Moved(t, at, acc)]
    /\ IF t \in stopped
       THEN /\ reply' = [reply EXCEPT ![t] = Throw("cancelled")]
            /\ UNCHANGED <<request, running>>
       ELSE /\ request' = [request EXCEPT ![t] = [state |-> "posted", call |-> call]]
            /\ running' = None
            /\ UNCHANGED reply
    /\ UNCHANGED <<script, log, disk, stopVars>>
Await(t, call, at) == Issue(t, call, at, Top(t).acc) /\ UNCHANGED file

-----------------------------------------------------------------------------
(* run_fs_request *)

\* What the request does to the disk.
Perform(d, c) ==
    CASE c[1] = "stat" -> StatPath(d, c[2])
      [] c[1] = "lstat" -> LstatPath(d, c[2])
      [] c[1] = "mkdir" -> MkdirPath(d, c[2])
      [] c[1] = "rmdir" -> RmdirPath(d, c[2])
      [] c[1] = "unlink" -> UnlinkPath(d, c[2])
      [] c[1] = "rename" -> RenamePath(d, c[2], c[3])
      [] c[1] = "copy" -> CopyFilePath(d, c[2], c[3], c[4])
      [] c[1] = "link" -> LinkPath(d, c[2], c[3])
      [] c[1] = "symlink" -> SymlinkPath(d, c[2], c[3])
      [] c[1] = "readlink" -> ReadlinkPath(d, c[2])
      [] c[1] = "realpath" -> RealpathPath(d, c[2])
      [] c[1] = "chmod" -> ChmodPath(d, c[2])
      [] c[1] = "ftruncate" -> FtruncateFile(d, c[2], c[3])
      [] c[1] = "open" -> OpenFile(d, c[2], c[3])
      [] c[1] = "close" -> CloseFile(d, c[2])
      [] c[1] = "read" -> ReadFile(d, c[2], c[3], c[4])
      [] c[1] = "write" -> WriteFile(d, c[2], c[3], c[4])
      [] c[1] = "sendfile" -> Sendfile(d, c[2], c[4], c[5], c[6])

PathRequests == {"stat", "lstat", "mkdir", "rmdir", "unlink", "rename", "copy",
                 "link", "symlink", "readlink", "realpath", "chmod"}

loopVars == <<script, log, frames, running, file>>

\* The start closure; that of sendfile positions the target first.
StartRequest(t) ==
    LET c == request[t].call
        seeks == IF c[1] = "sendfile" THEN SeekFileDescriptor(disk, c[2], c[3])
                 ELSE Ok(disk, Num(0))
    IN  /\ running = None /\ request[t].state = "posted"
        /\ \E s \in seeks :
               IF s.err = "none"
               THEN /\ disk' = s.disk
                    /\ request' = [request EXCEPT ![t].state = "queued"]
                    /\ UNCHANGED reply
               ELSE /\ request' = [request EXCEPT ![t].state = "finished"]
                    /\ reply' = [reply EXCEPT ![t] = Throw(s.err)]
                    /\ UNCHANGED disk
        /\ UNCHANGED <<loopVars, stopVars>>

\* A worker thread.
PoolExecute(t) ==
    /\ request[t].state = "queued"
    /\ \E s \in Perform(disk, request[t].call) :
           /\ disk' = s.disk
           /\ reply' = [reply EXCEPT ![t] = [err |-> s.err, val |-> s.val]]
    /\ request' = [request EXCEPT ![t].state = "finished"]
    /\ UNCHANGED <<loopVars, stopVars>>

\* request_stop(), and the closure its callback posts.
RequestStop(t) ==
    /\ t \in Stoppable \ stopped
    /\ stopped' = stopped \cup {t}
    /\ posted' = IF request[t].state = "none" THEN posted ELSE posted \cup {t}
    /\ UNCHANGED <<loopVars, request, reply, disk, cancelReq>>

CancelRequest(t) ==
    /\ running = None /\ t \in posted
    /\ posted' = posted \ {t}
    /\ CASE request[t].state = "none" -> UNCHANGED <<request, reply, cancelReq>>
         [] request[t].state = "finished" ->
                cancelReq' = cancelReq \cup {t} /\ UNCHANGED <<request, reply>>
         [] OTHER ->
                /\ cancelReq' = cancelReq \cup {t}
                /\ request' = [request EXCEPT ![t].state = "finished"]
                /\ reply' = [reply EXCEPT ![t] = Throw("cancelled")]
    /\ UNCHANGED <<loopVars, disk, stopped>>

\* The callback resumes the coroutine.
CompleteRequest(t) ==
    /\ running = None /\ request[t].state = "finished"
    /\ request' = [request EXCEPT ![t] = Idle]
    /\ running' = t
    /\ reply' = IF t \in cancelReq /\ ~Failed(t)
                THEN [reply EXCEPT ![t] = Throw("cancelled")] ELSE reply
    /\ cancelReq' = cancelReq \ {t} /\ posted' = posted \ {t}
    /\ UNCHANGED <<script, log, frames, file, disk, stopped>>

-----------------------------------------------------------------------------
(* fs: functions on paths *)

\* stat, lstat, rename, copy_file, create_hard_link, create_symbolic_link,
\* read_link, real_path, chmod, remove_file and remove_directory: one request.
PathFunction(t) ==
    /\ running = t /\ Top(t).fn \in PathRequests
    /\ \/ Top(t).at = "start" /\ Await(t, <<Top(t).fn>> \o Top(t).args, "last")
       \/ Top(t).at = "last" /\ Return(t, reply[t])

Exists(t) ==
    \/ At(t, "exists", "start") /\ Await(t, <<"stat", Arg(t, 1)>>, "stat")
    \/ /\ At(t, "exists", "stat")
       /\ Return(t, CASE ~Failed(t) -> Done(Flag(TRUE))
                      [] reply[t].err = "ENOENT" -> Done(Flag(FALSE))
                      [] OTHER -> reply[t])

IsDirectory(t) ==
    \/ At(t, "is_directory", "start") /\ Await(t, <<"stat", Arg(t, 1)>>, "stat")
    \/ /\ At(t, "is_directory", "stat")
       /\ Return(t, IF Failed(t) THEN reply[t] ELSE Done(Flag(reply[t].val.dir)))

FileSize(t) ==
    \/ At(t, "file_size", "start") /\ Await(t, <<"stat", Arg(t, 1)>>, "stat")
    \/ /\ At(t, "file_size", "stat")
       /\ Return(t, IF Failed(t) THEN reply[t] ELSE Done(Num(reply[t].val.size)))

ListDirectory(t) ==
    /\ At(t, "list_directory", "start")
    /\ \E s \in ScandirSync(disk, Arg(t, 1)) :
           Return(t, IF t \in stopped THEN Throw("cancelled")
                     ELSE [err |-> s.err, val |-> s.val])

\* Mutant of CreateDirectory: EEXIST is thrown on.
CreateDirectoryThrows(t) ==
    \/ At(t, "create_directory", "start") /\ Await(t, <<"mkdir", Arg(t, 1)>>, "mkdir")
    \/ At(t, "create_directory", "mkdir") /\ Return(t, reply[t])
CreateDirectory(t) ==
    \/ At(t, "create_directory", "start") /\ Await(t, <<"mkdir", Arg(t, 1)>>, "mkdir")
    \/ /\ At(t, "create_directory", "mkdir")
       /\ IF reply[t].err = "EEXIST"
          THEN Call(t, <<"is_directory", Arg(t, 1)>>, "exists")
          ELSE Return(t, reply[t])
    \/ /\ At(t, "create_directory", "exists")
       /\ Return(t, IF Failed(t) \/ reply[t].val.flag THEN reply[t]
                    ELSE Throw("not a directory"))

CreateDirectories(t) ==
    LET p == Arg(t, 1)
        Recheck == Call(t, <<"exists", p>>, "recheck")
    IN  \/ /\ At(t, "create_directories", "start")
           /\ IF p = <<>> THEN Return(t, Done(Num(0))) ELSE Call(t, <<"exists", p>>, "exists")
        \/ /\ At(t, "create_directories", "exists")
           /\ CASE Failed(t) \/ reply[t].val.flag -> Return(t, reply[t])
                [] Len(p) = 1 -> Recheck
                [] OTHER -> Call(t, <<"exists", Front(p)>>, "parent")
        \/ /\ At(t, "create_directories", "parent")
           /\ CASE Failed(t) -> Return(t, reply[t])
                [] ~Failed(t) /\ reply[t].val.flag -> Recheck
                [] OTHER -> Call(t, <<"create_directories", Front(p)>>, "made")
        \/ /\ At(t, "create_directories", "made")
           /\ IF Failed(t) THEN Return(t, reply[t]) ELSE Recheck
        \/ /\ At(t, "create_directories", "recheck")
           /\ IF Failed(t) \/ reply[t].val.flag THEN Return(t, reply[t])
              ELSE Call(t, <<"create_directory", p>>, "last")
        \/ At(t, "create_directories", "last") /\ Return(t, reply[t])

\* Mutant of RemoveLeftover: links are left to remove_all, which follows them.
RemoveLeftoverFollows(t) ==
    IF Top(t).acc = <<>> THEN Await(t, <<"rmdir", Arg(t, 1)>>, "last")
    ELSE CallAcc(t, <<"remove_all", Append(Arg(t, 1), Head(Top(t).acc))>>, "leftover",
                 Tail(Top(t).acc))
\* The names that are left in a directory when rmdir says ENOTEMPTY: links and
\* files are removed at once, directories by remove_all.  What has gone since
\* is an error or not, depending on the standard library.
RemoveLeftover(t) ==
    LET names == Top(t).acc
        child == Append(Arg(t, 1), Head(names))
    IN  CASE names = <<>> -> Await(t, <<"rmdir", Arg(t, 1)>>, "last")
          [] names # <<>> /\ t \in stopped -> Return(t, Throw("cancelled"))
          [] OTHER ->
               \E s \in LstatPath(disk, child) :
                   CASE s.err # "none" ->
                            \/ Return(t, Throw("error"))
                            \/ Goto(t, "leftovers", Tail(names)) /\ UNCHANGED <<reply, file, disk>>
                     [] s.err = "none" /\ s.val.dir ->
                            CallAcc(t, <<"remove_all", child>>, "leftover", Tail(names))
                     [] OTHER ->
                            /\ Goto(t, "leftovers", Tail(names))
                            /\ \E u \in UnlinkPath(disk, child) : disk' = u.disk
                            /\ UNCHANGED <<reply, file>>

\* The entries that scandir found, then the directory.
RemoveEntry(t) ==
    LET names == Top(t).acc
    IN  CASE names = <<>> -> Await(t, <<"rmdir", Arg(t, 1)>>, "rmdir")
          [] names # <<>> /\ t \in stopped -> Return(t, Throw("cancelled"))
          [] OTHER -> CallAcc(t, <<"remove_all", Append(Arg(t, 1), Head(names))>>,
                              "entry", Tail(names))

\* A directory is listed, or the listing throws.
List(t, at) ==
    \E s \in ScandirSync(disk, Arg(t, 1)) :
        IF s.err # "none" THEN Return(t, Throw(s.err))
        ELSE Goto(t, at, s.val.text) /\ UNCHANGED <<reply, file, disk>>

RemoveAll(t) ==
    LET p == Arg(t, 1)
    IN  \/ At(t, "remove_all", "start") /\ Call(t, <<"exists", p>>, "exists")
        \/ /\ At(t, "remove_all", "exists")
           /\ IF Failed(t) \/ ~reply[t].val.flag THEN Return(t, reply[t])
              ELSE Call(t, <<"is_directory", p>>, "kind")
        \/ /\ At(t, "remove_all", "kind")
           /\ CASE Failed(t) -> Return(t, reply[t])
                [] ~Failed(t) /\ reply[t].val.flag -> List(t, "entries")
                [] OTHER -> Await(t, <<"unlink", p>>, "last")
        \/ At(t, "remove_all", "entries") /\ RemoveEntry(t)
        \/ /\ At(t, "remove_all", "entry")
           /\ IF Failed(t) THEN Return(t, reply[t]) ELSE RemoveEntry(t)
        \/ /\ At(t, "remove_all", "rmdir")
           /\ IF reply[t].err = "ENOTEMPTY" THEN List(t, "leftovers")
              ELSE Return(t, reply[t])
        \/ At(t, "remove_all", "leftovers") /\ RemoveLeftover(t)
        \/ /\ At(t, "remove_all", "leftover")
           /\ IF Failed(t) THEN Return(t, reply[t]) ELSE RemoveLeftover(t)
        \/ At(t, "remove_all", "last") /\ Return(t, reply[t])

-----------------------------------------------------------------------------
(* file *)

IsOpen(f) == file[f].fd # 0
NotOpen == Throw("file is not open")

\* close_sync_noexcept(), of the destructor and of move assignment: without a
\* runtime_ a descriptor stays open.
CloseSyncNoexcept(d, f) ==
    IF IsOpen(f) /\ file[f].runtime = "set"
    THEN (CHOOSE s \in CloseFile(d, file[f].fd) : TRUE).disk ELSE d

\* The end of the life of a file object.
Destroy(t) ==
    /\ At(t, "destroy", "start")
    /\ Leave(t, Done(Num(0)))
    /\ disk' = CloseSyncNoexcept(disk, Arg(t, 1))
    /\ file' = [file EXCEPT ![Arg(t, 1)] = Destroyed]

\* f = std::move(g): f has all that g had, and g has no runtime_ any more.
MoveAssign(t) ==
    LET f == Arg(t, 1)
        g == Arg(t, 2)
    IN  /\ At(t, "move", "start")
        /\ Leave(t, Done(Num(0)))
        /\ IF f = g THEN UNCHANGED <<file, disk>>
           ELSE /\ disk' = CloseSyncNoexcept(disk, f)
                /\ file' = [file EXCEPT ![f] = file[g], ![g] = MovedFrom]

\* The function returns, and leaves f with another descriptor or offset.
ReturnWith(t, f, object, r) ==
    /\ Leave(t, r)
    /\ file' = [file EXCEPT ![f] = object]
    /\ UNCHANGED disk

\* The object f with another descriptor, at its start, or without one (0).
Holding(f, fd) == [file[f] EXCEPT !.fd = fd, !.offset = 0]

\* open(path): what is open is closed first.
OpenPath(t) ==
    LET f == Arg(t, 1)
        Open == Await(t, <<"open", Arg(t, 2), Arg(t, 3)>>, "opened")
    IN  \/ /\ At(t, "open", "start")
           /\ IF IsOpen(f) THEN Call(t, <<"close", f>>, "closed") ELSE Open
        \/ /\ At(t, "open", "closed")
           /\ IF Failed(t) THEN Return(t, reply[t]) ELSE Open
        \/ /\ At(t, "open", "opened")
           /\ IF Failed(t) THEN Return(t, reply[t])
              ELSE ReturnWith(t, f, Holding(f, reply[t].val.num), Done(Num(0)))

\* open(fd), of the descriptor that g has.
OpenDescriptor(t) ==
    LET f == Arg(t, 1)
        fd == file[Arg(t, 2)].fd
        Dup(n) ==
            \E s \in DuplicateFileDescriptor(disk, n) :
                /\ Leave(t, [err |-> s.err, val |-> Num(0)])
                /\ file' = IF s.err # "none" THEN file
                           ELSE [file EXCEPT ![f] = Holding(f, s.val.num)]
                /\ disk' = s.disk
    IN  \/ /\ At(t, "open_fd", "start")
           /\ CASE t \in stopped -> Return(t, Throw("cancelled"))
                [] t \notin stopped /\ fd = 0 -> Return(t, Throw("file descriptor is invalid"))
                [] t \notin stopped /\ fd # 0 /\ IsOpen(f) ->
                       CallAcc(t, <<"close", f>>, "closed", <<fd>>)
                [] OTHER -> Dup(fd)
        \/ /\ At(t, "open_fd", "closed")
           /\ IF Failed(t) THEN Return(t, reply[t]) ELSE Dup(Top(t).acc[1])

\* Mutant of Close: fd_ is given up when the descriptor has been closed.
CloseLate(t) ==
    LET f == Arg(t, 1)
    IN  \/ /\ At(t, "close", "start")
           /\ IF ~IsOpen(f) THEN Return(t, Done(Num(0)))
              ELSE Await(t, <<"close", file[f].fd>>, "last")
        \/ /\ At(t, "close", "last")
           /\ Leave(t, reply[t]) /\ file' = [file EXCEPT ![f] = Holding(f, 0)] /\ UNCHANGED disk
Close(t) ==
    LET f == Arg(t, 1)
    IN  \/ /\ At(t, "close", "start")
           /\ IF ~IsOpen(f) THEN Return(t, Done(Num(0)))
              ELSE /\ Issue(t, <<"close", file[f].fd>>, "last", <<>>)
                   /\ file' = [file EXCEPT ![f] = Holding(f, 0)]
        \/ At(t, "close", "last") /\ Return(t, reply[t])

\* read_at and read_at_into: max_bytes at an offset.
ReadAt(t) ==
    LET f == Arg(t, 1)
    IN  \/ /\ At(t, "read_at", "start")
           /\ CASE ~IsOpen(f) -> Return(t, NotOpen)
                [] IsOpen(f) /\ Arg(t, 2) = 0 -> Return(t, Done(Text(<<>>)))
                [] OTHER -> Await(t, <<"read", file[f].fd, Arg(t, 3), Arg(t, 2)>>, "last")
        \/ At(t, "read_at", "last") /\ Return(t, reply[t])

\* The offset moves on by what was read or written, from where it is then.
Advance(f, n) == [file[f] EXCEPT !.offset = @ + n]

\* Mutant of ReadSome: the offset is set as if the buffer were full.
ReadSomeFull(t) ==
    LET f == Arg(t, 1)
    IN  \/ /\ At(t, "read_some", "start")
           /\ Call(t, <<"read_at", f, Arg(t, 2), file[f].offset>>, "read")
        \/ /\ At(t, "read_some", "read")
           /\ IF Failed(t) THEN Return(t, reply[t])
              ELSE ReturnWith(t, f, Advance(f, Arg(t, 2)), reply[t])
\* read, read_some and read_some_into.
ReadSome(t) ==
    LET f == Arg(t, 1)
    IN  \/ /\ At(t, "read_some", "start")
           /\ Call(t, <<"read_at", f, Arg(t, 2), file[f].offset>>, "read")
        \/ /\ At(t, "read_some", "read")
           /\ IF Failed(t) THEN Return(t, reply[t])
              ELSE ReturnWith(t, f, Advance(f, Len(reply[t].val.text)), reply[t])

\* read_exact and read_exact_into: until the buffer is full or the file ends.
\* A stop between two reads throws away what was read.
ReadExact(t) ==
    LET total == Arg(t, 2)
        Loop(out) ==
            CASE Len(out) >= total -> Return(t, Done(Text(out)))
              [] Len(out) < total /\ t \in stopped -> Return(t, Throw("cancelled"))
              [] OTHER -> CallAcc(t, <<"read_some", Arg(t, 1), total - Len(out)>>, "chunk", out)
    IN  \/ At(t, "read_exact", "start") /\ Loop(<<>>)
        \/ /\ At(t, "read_exact", "chunk")
           /\ CASE Failed(t) -> Return(t, reply[t])
                [] ~Failed(t) /\ reply[t].val.text = <<>> -> Return(t, Done(Text(Top(t).acc)))
                [] OTHER -> Loop(Top(t).acc \o reply[t].val.text)

\* Mutant of ReadAll: an empty read does not end it.
ReadAllForever(t) ==
    LET Loop(out) ==
            IF t \in stopped THEN Return(t, Throw("cancelled"))
            ELSE CallAcc(t, <<"read_some", Arg(t, 1), Chunk>>, "chunk", out)
    IN  \/ At(t, "read_all", "start") /\ Loop(<<>>)
        \/ /\ At(t, "read_all", "chunk")
           /\ IF Failed(t) THEN Return(t, reply[t]) ELSE Loop(Top(t).acc \o reply[t].val.text)
ReadAll(t) ==
    LET Loop(out) ==
            IF t \in stopped THEN Return(t, Throw("cancelled"))
            ELSE CallAcc(t, <<"read_some", Arg(t, 1), Chunk>>, "chunk", out)
    IN  \/ At(t, "read_all", "start") /\ Loop(<<>>)
        \/ /\ At(t, "read_all", "chunk")
           /\ CASE Failed(t) -> Return(t, reply[t])
                [] ~Failed(t) /\ reply[t].val.text = <<>> -> Return(t, Done(Text(Top(t).acc)))
                [] OTHER -> Loop(Top(t).acc \o reply[t].val.text)

\* write_at and write_some_at.
WriteAt(t) ==
    LET f == Arg(t, 1)
    IN  \/ /\ At(t, "write_at", "start")
           /\ CASE ~IsOpen(f) -> Return(t, NotOpen)
                [] IsOpen(f) /\ Arg(t, 2) = <<>> -> Return(t, Done(Num(0)))
                [] OTHER -> Await(t, <<"write", file[f].fd, Arg(t, 3), Arg(t, 2)>>, "last")
        \/ At(t, "write_at", "last") /\ Return(t, reply[t])

\* write and write_some.
Write(t) ==
    LET f == Arg(t, 1)
    IN  \/ /\ At(t, "write", "start")
           /\ Call(t, <<"write_at", f, Arg(t, 2), file[f].offset>>, "written")
        \/ /\ At(t, "write", "written")
           /\ IF Failed(t) THEN Return(t, reply[t])
              ELSE ReturnWith(t, f, Advance(f, reply[t].val.num), reply[t])

Truncate(t) ==
    LET f == Arg(t, 1)
        size == Arg(t, 2)
    IN  \/ /\ At(t, "truncate", "start")
           /\ IF ~IsOpen(f) THEN Return(t, NotOpen)
              ELSE Await(t, <<"ftruncate", file[f].fd, size>>, "truncated")
        \/ /\ At(t, "truncate", "truncated")
           /\ IF Failed(t) THEN Return(t, reply[t])
              ELSE ReturnWith(t, f, [file[f] EXCEPT !.offset = IF @ > size THEN size ELSE @], reply[t])

\* sendfile(target, source, max_bytes), from the source's offset, which it keeps
\* over the request; both offsets move on.
SendfileFiles(t) ==
    LET target == Arg(t, 1)
        source == Arg(t, 2)
        n == Arg(t, 3)
    IN  \/ /\ At(t, "sendfile", "start")
           /\ CASE ~(IsOpen(target) /\ IsOpen(source)) -> Return(t, NotOpen)
                [] IsOpen(target) /\ IsOpen(source) /\ "null" \in {file[target].runtime, file[source].runtime} ->
                     Return(t, Throw("no runtime"))
                [] OTHER ->
                     IF n = 0 THEN Return(t, Done(Num(0))) ELSE
                     /\ Issue(t, <<"sendfile", file[target].fd, file[target].offset,
                                   file[source].fd, file[source].offset, n>>, "sent",
                              <<file[source].offset>>)
                     /\ UNCHANGED file
        \/ /\ At(t, "sendfile", "sent")
           /\ IF Failed(t) THEN Return(t, reply[t])
              ELSE /\ Leave(t, reply[t])
                   /\ file' = [file EXCEPT ![source].offset = Top(t).acc[1] + reply[t].val.num,
                                           ![target].offset = @ + reply[t].val.num]
                   /\ UNCHANGED disk

-----------------------------------------------------------------------------
(* fs: whole files, through a local file object *)

\* The function ends, and the destructor of its file object closes the file.
ReturnLocal(t, r) ==
    /\ Leave(t, r)
    /\ disk' = CloseSyncNoexcept(disk, t)
    /\ file' = [file EXCEPT ![t] = Closed]

Flags(fn) ==
    CASE fn = "read_file" -> {}
      [] fn = "write_file" -> {"creat", "trunc", "write"}
      [] fn = "append_file" -> {"creat", "write"}
Open(t) == Call(t, <<"open", t, Arg(t, 1), Flags(Top(t).fn)>>, "opened")

ReadWholeFile(t) ==
    \/ At(t, "read_file", "start") /\ Open(t)
    \/ /\ At(t, "read_file", "opened")
       /\ IF Failed(t) THEN ReturnLocal(t, reply[t]) ELSE Call(t, <<"read_all", t>>, "read")
    \/ /\ At(t, "read_file", "read")
       /\ IF Failed(t) THEN ReturnLocal(t, reply[t])
          ELSE CallAcc(t, <<"close", t>>, "closed", reply[t].val.text)
    \/ /\ At(t, "read_file", "closed")
       /\ ReturnLocal(t, IF Failed(t) THEN reply[t] ELSE Done(Text(Top(t).acc)))

WriteWholeFile(t) ==
    \/ At(t, "write_file", "start") /\ Open(t)
    \/ /\ At(t, "write_file", "opened")
       /\ IF Failed(t) THEN ReturnLocal(t, reply[t])
          ELSE Call(t, <<"write", t, Arg(t, 2)>>, "written")
    \/ /\ At(t, "write_file", "written")
       /\ IF Failed(t) THEN ReturnLocal(t, reply[t]) ELSE Call(t, <<"close", t>>, "closed")
    \/ At(t, "write_file", "closed") /\ ReturnLocal(t, reply[t])

\* The size is read before the file is opened.
AppendFile(t) ==
    \/ At(t, "append_file", "start") /\ Call(t, <<"exists", Arg(t, 1)>>, "exists")
    \/ /\ At(t, "append_file", "exists")
       /\ CASE Failed(t) -> Return(t, reply[t])
            [] ~Failed(t) /\ reply[t].val.flag -> Call(t, <<"file_size", Arg(t, 1)>>, "sized")
            [] OTHER -> CallAcc(t, <<"open", t, Arg(t, 1), Flags("append_file")>>, "opened", <<0>>)
    \/ /\ At(t, "append_file", "sized")
       /\ IF Failed(t) THEN Return(t, reply[t])
          ELSE CallAcc(t, <<"open", t, Arg(t, 1), Flags("append_file")>>, "opened", <<reply[t].val.num>>)
    \/ /\ At(t, "append_file", "opened")
       /\ IF Failed(t) THEN ReturnLocal(t, reply[t])
          ELSE Call(t, <<"write_at", t, Arg(t, 2), Top(t).acc[1]>>, "written")
    \/ /\ At(t, "append_file", "written")
       /\ IF Failed(t) THEN ReturnLocal(t, reply[t]) ELSE Call(t, <<"close", t>>, "closed")
    \/ At(t, "append_file", "closed") /\ ReturnLocal(t, reply[t])

-----------------------------------------------------------------------------
\* The next call of the script.
Begin(t) ==
    /\ running = None /\ frames[t] = <<>> /\ script[t] # <<>>
    /\ frames' = [frames EXCEPT ![t] = <<Frame(Head(script[t]))>>]
    /\ running' = t
    /\ UNCHANGED <<script, log, request, reply, file, disk, stopVars>>

\* The functions that look at the file objects they are called with.
Members == {"open", "open_fd", "close", "read_at", "read_some", "write_at", "write",
            "truncate", "sendfile", "destroy", "move"}

\* The next step of t reads or writes the object f: when the function starts, and
\* when it goes on after a request, unless it then only returns or throws.
Touches(t, f) ==
    /\ Top(t).fn \in Members
    /\ \E i \in DOMAIN Top(t).args : Arg(t, i) = f
    /\ \/ /\ Top(t).at = "start"
          /\ Top(t).fn = "open_fd" /\ f # Arg(t, 2) => t \notin stopped /\ IsOpen(Arg(t, 2))
       \/ /\ Top(t).at \notin {"start", "last"} /\ ~Failed(t)
          /\ Top(t).fn = "open_fd" => f = Arg(t, 1)

\* The next step of t asks *runtime_ of the object f for a request.
AsksRuntime(t, f) ==
    LET fn == Top(t).fn
        at == Top(t).at
    IN  /\ fn \in Members \ {"sendfile", "destroy", "move", "open_fd"} /\ f = Arg(t, 1)
        /\ t \notin stopped
        /\ \/ fn = "open" /\ at = "closed" /\ ~Failed(t)
           \/ fn = "open" /\ at = "start" /\ ~IsOpen(f)
           \/ fn \in {"close", "truncate"} /\ at = "start" /\ IsOpen(f)
           \/ fn = "read_at" /\ at = "start" /\ IsOpen(f) /\ Arg(t, 2) # 0
           \/ fn = "write_at" /\ at = "start" /\ IsOpen(f) /\ Arg(t, 2) # <<>>

\* Undefined behaviour comes next: t uses an object that has been destroyed, or
\* the null runtime_ of one that has been moved from.
Undefined(t) ==
    /\ running = t
    /\ \E f \in Objects :
           \/ file[f].runtime = "destroyed" /\ Touches(t, f)
           \/ file[f].runtime = "null" /\ AsksRuntime(t, f)

\* What the coroutine of t does next; undefined behaviour ends the run of the loop.
Run(t) == ~Undefined(t) /\ (
    \/ PathFunction(t) \/ Exists(t) \/ IsDirectory(t) \/ FileSize(t)
    \/ ListDirectory(t) \/ CreateDirectory(t) \/ CreateDirectories(t) \/ RemoveAll(t)
    \/ Destroy(t) \/ MoveAssign(t) \/ OpenPath(t) \/ OpenDescriptor(t) \/ Close(t)
    \/ ReadAt(t) \/ ReadSome(t) \/ ReadExact(t) \/ ReadAll(t) \/ WriteAt(t)
    \/ Write(t) \/ Truncate(t) \/ SendfileFiles(t)
    \/ ReadWholeFile(t) \/ WriteWholeFile(t) \/ AppendFile(t))

Loop(t) == Begin(t) \/ StartRequest(t) \/ CompleteRequest(t) \/ Run(t)

Next ==
    \E t \in Tasks : Loop(t) \/ PoolExecute(t) \/ RequestStop(t) \/ CancelRequest(t)

Spec == Init /\ [][Next]_vars

\* The loop runs the coroutine it has resumed, and resumes every one whose
\* request is over; the thread pool executes every request.
FairSpec ==
    Spec /\ \A t \in Tasks : SF_vars(Loop(t)) /\ WF_vars(PoolExecute(t))

-----------------------------------------------------------------------------
(* Properties *)

\* A close request for the descriptor d that has not been executed, and an open of
\* d whose caller is about to store it.
Closing(t, d) ==
    /\ request[t].state \in {"posted", "queued"}
    /\ request[t].call[1] = "close" /\ request[t].call[2] = d
Storing(t, d) ==
    /\ frames[t] # <<>> /\ Top(t).fn = "open" /\ Top(t).at = "opened"
    /\ request[t].state \in {"none", "finished"}
    /\ reply[t].err = "none" /\ reply[t].val.num = d

Holders(d) == {f \in Files : file[f].fd = d}
              \cup {<<t>> : t \in {u \in Tasks : Closing(u, d) \/ Storing(u, d)}}

\* Somebody closes d, or can: an object that has been moved from cannot.
HasCloser(d) ==
    \/ \E f \in Files : file[f].fd = d /\ file[f].runtime = "set"
    \/ \E t \in Tasks : \/ Closing(t, d)
                        \/ Storing(t, d) /\ file[Arg(t, 1)].runtime = "set"

\* The calls of all scripts, made or not.
Calls(t) == {log[t][i][1] : i \in DOMAIN log[t]} \cup {script[t][i] : i \in DOMAIN script[t]}
AllCalls == UNION {Calls(t) : t \in Tasks}

\* Each object is opened, moved and destroyed by one task only, which opens none by
\* descriptor that it has moved from.  Every task may use and close it.
Managed(t) ==
    {c[2] : c \in {k \in Calls(t) : k[1] \in {"open", "open_fd", "move", "destroy"}}}
    \cup {c[3] : c \in {k \in Calls(t) : k[1] = "move"}}
ManagedByOneTask ==
    /\ \A t, u \in Tasks : t # u => Managed(t) \cap Managed(u) = {}
    /\ \A c, d \in AllCalls :
           c[1] = "open_fd" /\ d[1] = "move" /\ d[2] # d[3] => c[2] # d[3]

\* A descriptor has at most one owner and the descriptor of a file object is
\* open, whoever closes, moves, destroys or reopens the object meanwhile, so that
\* no descriptor is closed twice (and another file with it).  And every open
\* descriptor has somebody who can close it, except that a cancelled open or close
\* leaks it, as does an open of an object that another task opens, moves from or
\* destroys while the request is awaited (fs.cpp:699, 736), and an open by
\* descriptor of an object without a runtime_ (752), which neither close() nor the
\* destructor can use (fs.cpp:680-754, 891-900).
DescriptorsHaveOneOwner ==
    /\ \A f \in Files : IsOpen(f) => file[f].fd \in OpenDescriptors(disk)
    /\ \A d \in OpenDescriptors(disk) :
           /\ Cardinality(Holders(d)) <= 1
           /\ stopped = {} /\ ManagedByOneTask => HasCloser(d)

Outcomes == UNION {{log[t][i] : i \in DOMAIN log[t]} : t \in Tasks}

Harmless == {"stat", "lstat", "exists", "is_directory", "file_size", "readlink", "realpath",
             "list_directory", "create_directory", "create_directories"}

\* Tasks that create directories at the same time, nested in each other or the
\* same, all succeed, and find all of their directories made, unless a file has
\* the name (fs.cpp:951-994).
CreatorsDoNotFail ==
    (\A c \in AllCalls : c[1] \in Harmless) =>
        \A o \in Outcomes :
            /\ o[1][1] \in {"create_directory", "create_directories"}
            /\ o[2].err # "cancelled" /\ Node(disk, o[1][2]) # "file" =>
                /\ o[2].err = "none"
                /\ \A i \in 1..Len(o[1][2]) : Node(disk, SubSeq(o[1][2], 1, i)) = "dir"

Readers == {"stat", "lstat", "exists", "is_directory", "file_size", "list_directory", "read_file"}

\* A link below p, or p itself, that leads to a node of that kind.
LinkBelow(p, kind) ==
    {q \in DOMAIN disk.tree : IsPrefix(p, q) /\ Node(disk, q) = "link"
                              /\ Node(disk, Follow(disk, q)) = kind}

\* When nobody adds to the tree, a remove_all that returns has removed its path and
\* all below it, whoever removes or reads there meanwhile; only a path that is a
\* dangling link itself does not exist for it and stays.  If nobody else removes
\* either, it fails in one case only: it follows a link to a directory, takes what
\* is in there, and then rmdir refuses the link (fs.cpp:1052-1109).
RemoveAllRemoves ==
    LET removals == {c \in AllCalls : c[1] \in {"remove_all", "unlink", "rmdir"}}
    IN  (\A c \in AllCalls \ removals : c[1] \in Readers) =>
            \A o \in Outcomes :
                LET p == o[1][2]
                IN  o[1][1] = "remove_all" /\ o[2].err # "cancelled" =>
                        IF o[2].err = "none"
                        THEN {q \in DOMAIN disk.tree : IsPrefix(p, q)}
                             \subseteq LinkBelow(p, "none") \cap {p}
                        ELSE Cardinality(removals) = 1 =>
                                 o[2].err = "ENOTDIR" /\ LinkBelow(p, "dir") # {}

\* The calls of t on f, one after another: where they have come to in the file,
\* and whether every read returned what is there, up to the end if it was to.
Follows(t, f) ==
    LET Enough(c, text) == CASE c[1] = "read_all" -> FALSE
                             [] c[1] = "read_exact" -> Len(text) = c[3]
                             [] OTHER -> text # <<>>
        Consume(s, o) ==
            LET fn == o[1][1]
                text == o[2].val.text
                pos == s.pos + Len(text)
            IN  CASE o[2].err # "none" -> s
                  [] fn \in {"open", "open_fd"} /\ o[1][2] = f ->
                        [s EXCEPT !.pos = 0, !.whole = fn = "open"]
                  [] fn \in {"read_some", "read_exact", "read_all"} /\ o[1][2] = f ->
                        [s EXCEPT !.pos = pos,
                                  !.ok = /\ @ /\ text = SubSeq(Original, s.pos + 1, pos)
                                         /\ s.whole => Enough(o[1], text) \/ pos = Len(Original)]
                  [] fn = "sendfile" /\ f \in {o[1][2], o[1][3]} ->
                        [s EXCEPT !.pos = @ + o[2].val.num]
                  [] OTHER -> s
    IN  FoldLeft(Consume, [pos |-> 0, whole |-> FALSE, ok |-> TRUE], log[t])

\* The reads and sends of a task return the file from its start, without a gap
\* and without repeating anything, however short each of them is, and stop only
\* where the file does, unless a call was cancelled (fs.cpp:756-809, 865-878,
\* 1144-1180).
ReadsAreContiguous ==
    stopped = {} => \A t \in Tasks, f \in Objects : Follows(t, f).ok

\* Every task ends its script, stopped or not, unless undefined behaviour ends the
\* run: no loop of reads, of leftovers or of retries goes on for ever
\* (fs.cpp:774-809, 865-878, 1052-1109).
ScriptsEnd ==
    <>(\A t \in Tasks : script[t] = <<>>) \/ <>[](\E t \in Tasks : Undefined(t))
=============================================================================
