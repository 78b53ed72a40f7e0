--------------------------- MODULE UploadPipeline ---------------------------
(***************************************************************************)
(* An upload on its way into FastDFS: the temporary file is handed to      *)
(* fdfs_upload_file, then fdfs_file_info is asked for the address, each in *)
(* a child process whose standard output is a pipe.  Several threads do so *)
(* at once, and delete files by system(): all children belong to one       *)
(* process, and wait(NULL) collects any of them.  A child whose exec fails *)
(* goes on as a copy of the server, with one thread.                       *)
(***************************************************************************)
EXTENDS Integers, FiniteSets

CONSTANTS
  Threads,     \* event loop threads, numbered from 1
  MaxUploads,  \* bound: uploads and removals
  MaxIds,      \* bound: threads and children, which are numbered on after the threads
  MaxErrors    \* bound: system calls and statements that fail

ASSUME UploadPipelineAssumption ==
  /\ Threads = 1..Cardinality(Threads) /\ Cardinality(Threads) \in 0..MaxIds
  /\ MaxUploads \in Nat /\ MaxIds \in Nat /\ MaxErrors \in Nat

Tools == {"upload", "info"}
Ids   == 1..MaxIds

VARIABLES
  installed,   \* the tools that execlp finds
  doing,       \* doing[t]: where thread t, or the copy t, is
  tool,        \* tool[t]: the tool t is dealing with
  child,       \* child[t]: the child t has forked and not waited for, or 0
  ends,        \* those whose process still has the write end of their pipe open
  output,      \* output[t]: what the pipe of t holds: "", "id", "text", "error" or "log"
  kid,         \* kid[k]: the child process k
  begun, errors,
  \* history, of the threads:
  unwaited,    \* how often one has given up a child before wait
  stolen,      \* children of system() that another thread's wait collected
  extra        \* children that a thread collected which had forked none, less the
               \* waits of threads that had forked one and found none

callVars == <<doing, tool, child, ends>>
history  == <<unwaited, stolen, extra>>
pipeVars == <<installed, callVars, output, kid, begun, errors, history>>

\* "running" until it exits, "copy" once its exec has failed, "zombie" until
\* collected.  A child keeps the write ends it holds until it exits.
NoKid == [state |-> "none", of |-> 0, for |-> 0, tool |-> "none", holds |-> {}]
Kids  == {k \in Ids : kid[k].state # "none"}

\* Threads belong to process 0, a copy is a process of its own.
Process(t)    == IF t \in Threads THEN 0 ELSE t
ChildrenOf(p) == {k \in Kids : kid[k].of = p}
Free          == Ids \ (Threads \cup Kids)
NextId        == CHOOSE k \in Free : TRUE

PipeInit ==
  /\ installed \in SUBSET Tools
  /\ doing = [t \in Ids |-> IF t \in Threads THEN "idle" ELSE "none"]
  /\ tool = [t \in Ids |-> "upload"] /\ child = [t \in Ids |-> 0]
  /\ ends = {} /\ output = [t \in Ids |-> ""]
  /\ kid = [k \in Ids |-> NoKid]
  /\ begun = 0 /\ errors = 0
  /\ unwaited = 0 /\ stolen = 0 /\ extra = 0

GoesTo(t, l) == doing' = [doing EXCEPT ![t] = l]
Fails == errors < MaxErrors /\ errors' = errors + 1
Works == UNCHANGED errors
Same  == UNCHANGED <<installed, begun>>

\* What the history counts of what t does.
Once(t, p) == IF t \in Threads /\ p THEN 1 ELSE 0

-----------------------------------------------------------------------------
(* ApiUpload *)

\* The fields of the form, in their order, and the renaming of the temporary file.
Begin(t) ==
  /\ doing[t] = "idle" /\ t \in Threads /\ begun < MaxUploads
  /\ begun' = begun + 1
  /\ \/ Works /\ GoesTo(t, "pipe") /\ tool' = [tool EXCEPT ![t] = "upload"]
     \/ Fails /\ UNCHANGED <<doing, tool>>
  /\ UNCHANGED <<installed, child, ends, output, kid, history>>

Unlink(t) ==
  /\ doing[t] = "unlink"
  /\ \/ Works /\ GoesTo(t, "pipe") /\ tool' = [tool EXCEPT ![t] = "info"]
     \/ Fails /\ GoesTo(t, "idle") /\ UNCHANGED tool
  /\ UNCHANGED <<child, ends, output, kid, history>> /\ Same

\* storeFileinfo and the answer.
Store(t) ==
  /\ doing[t] = "store"
  /\ (Works \/ Fails) /\ GoesTo(t, "idle")
  /\ UNCHANGED <<tool, child, ends, output, kid, history>> /\ Same

-----------------------------------------------------------------------------
(* uploadFileToFastDfs and getFullUrlByFileid.  When one of them fails ApiUpload *)
(* answers at once, after removing the temporary file if it was the first.       *)

\* Ends of the previous pipe of t that children still hold no longer matter.
Pipe(t) ==
  /\ doing[t] = "pipe"
  /\ \/ /\ Works /\ GoesTo(t, "fork")
        /\ ends' = ends \cup {t} /\ output' = [output EXCEPT ![t] = ""]
        /\ kid' = [k \in Ids |-> [kid[k] EXCEPT !.holds = @ \ {t}]]
     \/ Fails /\ GoesTo(t, "idle") /\ UNCHANGED <<ends, output, kid>>
  /\ UNCHANGED <<tool, child, history>> /\ Same

\* A child inherits the write ends of all threads of its process, nothing marks them
\* to be closed on exec; and those that a copy has inherited itself, but for the one
\* that is the copy's standard output, which dup2 replaces.
Inherits(t) == {u \in ends : Process(u) = Process(t)} \cup (kid[t].holds \ {kid[t].for})

Child(t, what) ==
  /\ kid' = [kid EXCEPT ![NextId] = [state |-> "running", of |-> Process(t), for |-> t,
                                     tool |-> what, holds |-> Inherits(t)]]
  /\ child' = [child EXCEPT ![t] = NextId]

\* Only uploadFileToFastDfs asks whether fork has failed.
Fork(t) ==
  /\ doing[t] = "fork" /\ Free # {}
  /\ \/ Works /\ Child(t, tool[t]) /\ GoesTo(t, "close") /\ UNCHANGED ends
     \/ /\ Fails /\ UNCHANGED <<kid, child>>
        /\ \/ tool[t] = "upload" /\ GoesTo(t, "idle") /\ ends' = ends \ {t}
           \/ tool[t] = "info" /\ GoesTo(t, "close") /\ UNCHANGED ends
  /\ UNCHANGED <<tool, output, history>> /\ Same

\* Mutant: the parent keeps the write end.
Close_Keeps(t) ==
  /\ doing[t] = "close"
  /\ Works /\ GoesTo(t, "read")
  /\ UNCHANGED <<tool, child, ends, output, kid, history>> /\ Same

Close(t) ==
  /\ doing[t] = "close"
  /\ Works /\ GoesTo(t, "read") /\ ends' = ends \ {t}
  /\ UNCHANGED <<tool, child, output, kid, history>> /\ Same

HoldsEnd(t) == t \in ends \/ \E k \in Kids : t \in kid[k].holds

GivesUp(t) ==
  /\ GoesTo(t, "idle") /\ child' = [child EXCEPT ![t] = 0]
  /\ unwaited' = unwaited + Once(t, child[t] # 0)

\* End of file: the function fails without waiting.  A failed read leaves the
\* buffer empty (size_t is never negative): the first fails over the empty id, the
\* second waits first.
ReadsNothing(t) ==
  /\ doing[t] = "read" /\ output[t] = ""
  /\ \/ ~HoldsEnd(t) /\ Works /\ GivesUp(t) /\ UNCHANGED output
     \/ Fails /\ tool[t] = "upload" /\ GivesUp(t) /\ UNCHANGED output
     \/ /\ Fails /\ tool[t] = "info" /\ GoesTo(t, "wait")
        /\ output' = [output EXCEPT ![t] = "error"] /\ UNCHANGED <<child, unwaited>>
  /\ UNCHANGED <<tool, ends, kid, stolen, extra>> /\ Same

Reads(t) ==
  /\ doing[t] = "read" /\ output[t] # ""
  /\ Works /\ GoesTo(t, "wait")
  /\ UNCHANGED <<tool, child, ends, output, kid, history>> /\ Same

Zombies(p) == {k \in ChildrenOf(p) : kid[k].state = "zombie"}
Collect(k) == kid' = [kid EXCEPT ![k] = NoKid]

AfterWait(t) ==
  IF tool[t] = "upload" THEN "unlink" ELSE IF output[t] = "text" THEN "store" ELSE "idle"

\* Mutant: the answer of fdfs_file_info is looked at before the child is waited for.
Wait_AfterSearch(t) ==
  /\ doing[t] = "wait" /\ Works /\ GoesTo(t, AfterWait(t))
  /\ child' = [child EXCEPT ![t] = 0]
  /\ IF AfterWait(t) = "idle" THEN UNCHANGED kid ELSE \E k \in Zombies(Process(t)) : Collect(k)
  /\ UNCHANGED <<tool, ends, output, history>> /\ Same

\* wait(NULL) collects any child of the process that has exited, and returns at
\* once if the process has none.
Wait(t) ==
  /\ doing[t] = "wait" /\ Works /\ GoesTo(t, AfterWait(t))
  /\ child' = [child EXCEPT ![t] = 0]
  /\ \/ \E k \in Zombies(Process(t)) :
          /\ Collect(k)
          /\ stolen' = stolen + Once(t, kid[k].tool = "shell")
          /\ extra' = extra + Once(t, child[t] = 0)
     \/ /\ ChildrenOf(Process(t)) = {} /\ UNCHANGED <<kid, stolen>>
        /\ extra' = extra - Once(t, child[t] # 0)
  /\ UNCHANGED <<tool, ends, output, unwaited>> /\ Same

-----------------------------------------------------------------------------
(* RemoveFileFromFastDfs: system() forks a shell and waits for just that child *)

RemoveFile(t) ==
  /\ doing[t] = "idle" /\ t \in Threads /\ begun < MaxUploads /\ Free # {}
  /\ begun' = begun + 1 /\ Works
  /\ Child(t, "shell") /\ GoesTo(t, "shell")
  /\ UNCHANGED <<installed, tool, ends, output, history>>

Shell(t) == {k \in Kids : kid[k].for = t /\ kid[k].tool = "shell"}

\* If another thread has collected the shell, waitpid fails, and so does the removal.
ShellEnds(t) ==
  /\ doing[t] = "shell" /\ Works /\ GoesTo(t, "idle")
  /\ child' = [child EXCEPT ![t] = 0]
  /\ \/ \E k \in Shell(t) : kid[k].state = "zombie" /\ Collect(k)
     \/ Shell(t) = {} /\ UNCHANGED kid
  /\ UNCHANGED <<tool, ends, output, history>> /\ Same

-----------------------------------------------------------------------------
(* The children *)

Writes(k, what) == output' = [output EXCEPT ![kid[k].for] = what]
\* The read end is open and nothing was written yet.
Heard(k) == kid[k].for \in kid[k].holds /\ output[kid[k].for] = ""
Alone    == UNCHANGED <<installed, begun, errors, history>>

\* The tool prints what it is asked for, or nothing (upload) or a complaint (info).
ToolWrites(k) ==
  /\ kid[k].state = "running" /\ kid[k].tool \in installed
  /\ kid' = [kid EXCEPT ![k].state = "written"]
  /\ \/ Heard(k) /\ kid[k].tool = "upload" /\ Writes(k, "id")
     \/ Heard(k) /\ kid[k].tool = "info" /\ (Writes(k, "text") \/ Writes(k, "error"))
     \/ (~Heard(k) \/ kid[k].tool = "upload") /\ UNCHANGED output
  /\ UNCHANGED callVars /\ Alone

Exits(k) ==
  /\ kid[k].state = "written" \/ (kid[k].state = "running" /\ kid[k].tool = "shell")
  /\ kid' = [kid EXCEPT ![k].state = "zombie", ![k].holds = {}]
  /\ UNCHANGED <<output, callVars>> /\ Alone

\* execlp fails: the child returns from the function with success, an empty id or
\* an empty address, and goes on with the request its parent is waiting in.
ExecFails(k) ==
  /\ kid[k].state = "running" /\ kid[k].tool \in Tools \ installed
  /\ kid' = [kid EXCEPT ![k].state = "copy"]
  /\ tool' = [tool EXCEPT ![k] = kid[k].tool]
  /\ doing' = [doing EXCEPT ![k] = IF kid[k].tool = "upload" THEN "unlink" ELSE "store"]
  /\ UNCHANGED <<output, child, ends>> /\ Alone

\* The standard output of the copy is the pipe: when its buffer is full its log
\* lines are what the parent reads.
CopyLogs(k) ==
  /\ kid[k].state = "copy" /\ Heard(k) /\ Writes(k, "log")
  /\ UNCHANGED <<kid, callVars>> /\ Alone

ThreadStep(t) ==
  \/ Pipe(t) \/ Fork(t) \/ Close(t) \/ ReadsNothing(t) \/ Reads(t) \/ Wait(t)
  \/ Unlink(t) \/ Store(t) \/ ShellEnds(t)
ChildStep(k) == ToolWrites(k) \/ Exits(k) \/ ExecFails(k) \/ CopyLogs(k)

PipeNext ==
  \/ \E t \in Threads : Begin(t) \/ RemoveFile(t)
  \/ \E t \in Ids : ThreadStep(t)
  \/ \E k \in Ids : ChildStep(k)

\* Threads are scheduled, and tools and shells come to their end.
PipeFairness ==
  /\ \A t \in Ids : WF_pipeVars(ThreadStep(t))
  /\ \A k \in Ids : WF_pipeVars(ToolWrites(k)) /\ WF_pipeVars(Exits(k))

PipeSpec == PipeInit /\ [][PipeNext]_pipeVars

-----------------------------------------------------------------------------
(* Properties *)

Owed   == {t \in Threads : child[t] # 0}
Robbed == {t \in Threads : doing[t] = "shell" /\ Shell(t) = {}}

\* Although each thread collects any child, every child the process has not
\* collected is accounted for: some thread will still wait for one, or a thread gave
\* up before it waited, or the child of a system() was collected in its place; less
\* those that were collected by a thread which had forked none, its fork having failed,
\* and not missed since by another's wait.
\* Nothing else leaves a zombie behind.
ChildrenAccounted ==
  Cardinality(ChildrenOf(0)) + extra + Cardinality(Robbed) =
    Cardinality(Owed) + unwaited + stolen

\* With both tools there, every upload and every removal ends: pipes are closed in
\* time for the end of file to be seen although children inherit the write ends of
\* others, and nobody waits for a child that never exits.
UploadsEnd ==
  PipeFairness => (installed = Tools => \A t \in Threads : []<>(doing[t] = "idle"))
=============================================================================
