---------------------------- MODULE ThreadsExec ----------------------------
(***************************************************************************)
(* The thread pool of the Threads back end.  The process spawns threads    *)
(* that run driver(), starts a function on all of them by setting their    *)
(* states to Active, and waits in fence() for the root, entry 0 of         *)
(* s_threads_exec.  There is no lock and no counter: a thread waits for    *)
(* its fan, the entries at distance 1, 2, 4 ... below it, to leave Active. *)
(* The same state word is used by barrier(), scan_small() and the barriers *)
(* of teams, which a waiting thread leaves when another sets it to Active. *)
(*                                                                         *)
(* Each access to the state of another thread is a step.  What the         *)
(* functions do between these operations is in ThreadsParallel.            *)
(***************************************************************************)
EXTENDS Integers, Sequences, FiniteSets

CONSTANT Configs   \* what the process may do: see Config

(* size, process: the pool, and whether the process is in it; fault: a     *)
(* thread that cannot be created ("create") or bound ("bind"); calls: the  *)
(* calls of the process after initialize(); items, chunk, team: the range  *)
(* or league, the chunk size and the team size of the kernels.             *)
Config == [size : Nat \ {0}, process : BOOLEAN,
           fault : [kind : {"none", "create", "bind"}, at : Nat],
           calls : Seq(STRING), items : Nat, chunk : Nat \ {0}, team : Nat \ {0}]

ASSUME ConfigAssumption == Configs \subseteq Config

Process == -1      \* s_threads_process
Nil     == -2      \* a null entry of s_threads_exec
Kernels == {"for", "reduce", "scan", "dynamic", "team", "team_reduce", "team_dynamic",
            "graph_ready", "graph"}

VARIABLES config,
          process,             \* the process: position, loop index, call, calls to come
          s_threads_exec,      \* the thread of each entry
          m_pool_state,
          s_current_function,  \* "null" when there is none
          global_lock,         \* held by the process
          self,                \* what each thread is doing
          reduce_memory        \* of each thread: the value and its scan

poolVars == <<config, process, s_threads_exec, m_pool_state, s_current_function,
              global_lock, self, reduce_memory>>

Size    == config.size
Entries == 0..(Size - 1)
Begin   == IF config.process THEN 1 ELSE 0     \* the first entry that is spawned
Ids     == {Process} \cup Entries
Items   == 0..(config.items - 1)

(* The value of a reduction: how often each item contributes to it. *)
Zero       == [x \in Items |-> 0]
Join(a, b) == [x \in Items |-> a[x] + b[x]]
Scratch    == [value |-> Zero, scan |-> Zero]
Own(S)     == [x \in Items |-> IF x \in S THEN 1 ELSE 0]

Entry(t) == IF t = Process THEN 0 ELSE t
Rank(t)  == Size - (Entry(t) + 1)

(* fan_size: the entries r + 1, r + 2, r + 4 ... up to the first bit that  *)
(* is set in r, of those there are.                                        *)
fan_size(r, size) ==
    Cardinality({n \in 0..15 : \A m \in 0..n : (r \div 2^m) % 2 = 0 /\ r + 2^m < size})

(* Teams of consecutive entries, team_alloc apart (with one hardware       *)
(* thread per core, team_grain is 1).                                      *)
team_alloc    == Size \div (Size \div config.team)
team_rank_rev(t) == Entry(t) % team_alloc

(* A thread: its position, the function it runs, the collective operation  *)
(* it is in, the index of the loop over its fan, the position to go on at, *)
(* and the locals of the function.                                         *)
Idle == [pc |-> "idle", fn |-> "none", mode |-> "none", i |-> 0, then |-> "return",
         old |-> <<0, 0>>, half |-> 0, rank |-> 0, end |-> 0]

ExecInit ==
    /\ config \in Configs
    /\ process = [pc |-> "spawn", i |-> Begin, call |-> "initialize", left |-> config.calls]
    /\ s_threads_exec = [e \in Entries |-> Nil]
    /\ m_pool_state = [t \in Ids |-> IF t = Process THEN "Inactive" ELSE "Terminating"]
    /\ s_current_function = "noop"
    /\ global_lock = FALSE
    /\ self = [t \in Ids |-> [Idle EXCEPT !.pc = IF t = Process THEN "idle" ELSE "unborn"]]
    /\ reduce_memory = [t \in Ids |-> Scratch]

At(t, pc)   == self[t].pc = pc
Runs(t, fn) == self[t].fn = fn
Goto(t, r)  == self' = [self EXCEPT ![t] = r]
Set(t, s)   == m_pool_state' = [m_pool_state EXCEPT ![t] = s]
Host(r)     == process' = r
Fan(t)      == s_threads_exec[Entry(t) + 2^self[t].i]

-----------------------------------------------------------------------------
(* The collective operations of a thread.  Enter begins one: the thread    *)
(* waits for its fan, and then, unless the operation is a plain fan-in,    *)
(* for its release.                                                        *)

FanCount(t, mode) ==
    IF mode = "team" THEN fan_size(team_rank_rev(t), config.team) ELSE fan_size(Entry(t), Size)
Root(t, mode) == IF mode = "team" THEN team_rank_rev(t) = 0 ELSE Entry(t) = 0

AfterFan(t, mode, then) ==
    IF mode \in {"fan_in", "fan_in_reduce"} THEN then
    ELSE IF ~Root(t, mode) THEN "arrive"
    ELSE CASE mode = "barrier" -> "release"
           [] mode = "scan"    -> "root_scan"
           [] mode = "team"    -> IF FanCount(t, mode) = 0 THEN then ELSE "fan_out"

Enter(t, r, mode, then) ==
    [r EXCEPT !.mode = mode, !.i = 0, !.then = then,
              !.pc = IF FanCount(t, mode) = 0 THEN AfterFan(t, mode, then) ELSE "fan"]

(* Mutant: the state of the first member of the fan only. *)
FanWaitFirst(t) ==
    /\ At(t, "fan")
    /\ self[t].i = 0 => m_pool_state[Fan(t)] # "Active"
    /\ LET me == self[t]
           last == me.i + 1 = FanCount(t, me.mode)
       IN Goto(t, [me EXCEPT !.i = IF last THEN 0 ELSE @ + 1,
                             !.pc = IF last THEN AfterFan(t, me.mode, me.then) ELSE "fan"])
    /\ IF self[t].mode = "fan_in_reduce"
       THEN reduce_memory' = [reduce_memory EXCEPT
               ![t].value = Join(@, reduce_memory[Fan(t)].value)]
       ELSE UNCHANGED reduce_memory
    /\ UNCHANGED <<config, process, s_threads_exec, m_pool_state, s_current_function, global_lock>>

(* spinwait_while_equal(fan.m_pool_state, Active), and the join of         *)
(* fan_in_reduce.                                                          *)
FanWait(t) ==
    /\ At(t, "fan")
    /\ m_pool_state[Fan(t)] # "Active"
    /\ LET me == self[t]
           last == me.i + 1 = FanCount(t, me.mode)
       IN Goto(t, [me EXCEPT !.i = IF last THEN 0 ELSE @ + 1,
                             !.pc = IF last THEN AfterFan(t, me.mode, me.then) ELSE "fan"])
    /\ IF self[t].mode = "fan_in_reduce"
       THEN reduce_memory' = [reduce_memory EXCEPT
               ![t].value = Join(@, reduce_memory[Fan(t)].value)]
       ELSE UNCHANGED reduce_memory
    /\ UNCHANGED <<config, process, s_threads_exec, m_pool_state, s_current_function, global_lock>>

(* m_pool_state = Rendezvous; scan_small first copies the value. *)
Arrive(t) ==
    /\ At(t, "arrive")
    /\ Set(t, "Rendezvous")
    /\ Goto(t, [self[t] EXCEPT !.pc = "rendezvous"])
    /\ IF self[t].mode = "scan"
       THEN reduce_memory' = [reduce_memory EXCEPT ![t].scan = reduce_memory[t].value]
       ELSE UNCHANGED reduce_memory
    /\ UNCHANGED <<config, process, s_threads_exec, s_current_function, global_lock>>

Released(t) ==
    /\ At(t, "rendezvous")
    /\ m_pool_state[t] # "Rendezvous"
    /\ LET me == self[t] IN
         Goto(t, [me EXCEPT !.pc = IF me.mode = "barrier" \/ FanCount(t, me.mode) = 0
                                   THEN me.then ELSE "fan_out"])
    /\ UNCHANGED <<config, process, s_threads_exec, m_pool_state, s_current_function,
                   global_lock, reduce_memory>>

(* The root of barrier() releases all threads, the lowest rank first. *)
Release(t) ==
    /\ At(t, "release")
    /\ LET i == self[t].i IN
         /\ Set(s_threads_exec[Size - (i + 1)], "Active")
         /\ Goto(t, IF i + 1 = Size THEN [self[t] EXCEPT !.i = 0, !.pc = self[t].then]
                    ELSE [self[t] EXCEPT !.i = @ + 1])
    /\ UNCHANGED <<config, process, s_threads_exec, s_current_function, global_lock, reduce_memory>>

(* scan_small and team_fan_out: a released thread releases its fan. *)
FanOut(t) ==
    /\ At(t, "fan_out")
    /\ Set(Fan(t), "Active")
    /\ LET me == self[t] IN
         Goto(t, IF me.i + 1 = FanCount(t, me.mode) THEN [me EXCEPT !.i = 0, !.pc = me.then]
                 ELSE [me EXCEPT !.i = @ + 1])
    /\ UNCHANGED <<config, process, s_threads_exec, s_current_function, global_lock, reduce_memory>>

(* Mutant: the scan includes the values of the thread itself. *)
RootScanInclusive(t) ==
    /\ At(t, "root_scan")
    /\ LET scan == [reduce_memory EXCEPT ![t].scan = reduce_memory[t].value]
           upto[e \in Entries] ==
              IF e = Size - 1 THEN scan[s_threads_exec[e]].scan
              ELSE Join(scan[s_threads_exec[e]].scan, upto[e + 1])
       IN reduce_memory' = [u \in Ids |->
             IF \E e \in Entries : s_threads_exec[e] = u
             THEN [value |-> upto[Entry(u)],
                   scan |-> upto[Entry(u)]]
             ELSE reduce_memory[u]]
    /\ Goto(t, [self[t] EXCEPT !.pc = IF FanCount(t, "scan") = 0 THEN self[t].then ELSE "fan_out"])
    /\ UNCHANGED <<config, process, s_threads_exec, m_pool_state, s_current_function, global_lock>>

(* The root of scan_small: from the lowest rank, which is the last entry,  *)
(* each value becomes the scan of the rank before and is joined to its own.*)
RootScan(t) ==
    /\ At(t, "root_scan")
    /\ LET scan == [reduce_memory EXCEPT ![t].scan = reduce_memory[t].value]
           upto[e \in Entries] ==
              IF e = Size - 1 THEN scan[s_threads_exec[e]].scan
              ELSE Join(scan[s_threads_exec[e]].scan, upto[e + 1])
       IN reduce_memory' = [u \in Ids |->
             IF \E e \in Entries : s_threads_exec[e] = u
             THEN [value |-> IF Entry(u) = Size - 1 THEN Zero ELSE upto[Entry(u) + 1],
                   scan |-> upto[Entry(u)]]
             ELSE reduce_memory[u]]
    /\ Goto(t, [self[t] EXCEPT !.pc = IF FanCount(t, "scan") = 0 THEN self[t].then ELSE "fan_out"])
    /\ UNCHANGED <<config, process, s_threads_exec, m_pool_state, s_current_function, global_lock>>

Collective(t) ==
    FanWait(t) \/ Arrive(t) \/ Released(t) \/ Release(t) \/ FanOut(t) \/ RootScan(t)

-----------------------------------------------------------------------------
(* driver(): the constructor claims the entry and tells the process; then  *)
(* the function is called whenever the state is set to Active.             *)

(* The ~0u of bind_this_thread for a thread that cannot be bound is the    *)
(* entry -1, which is below the size of the pool: the thread claims the    *)
(* word before s_threads_exec, and joins if that happens to be null, with  *)
(* no entry and no fan.                                                    *)
Construct(t) ==
    /\ At(t, "construct")
    /\ \/ /\ config.fault # [kind |-> "bind", at |-> t]
          /\ s_threads_exec' = [s_threads_exec EXCEPT ![t] = t]
          /\ m_pool_state' = [m_pool_state EXCEPT ![t] = "Active", ![Process] = "Active"]
          /\ Goto(t, [self[t] EXCEPT !.pc = "call"])
       \/ /\ config.fault = [kind |-> "bind", at |-> t]
          /\ \/ /\ m_pool_state' = [m_pool_state EXCEPT ![t] = "Active", ![Process] = "Active"]
                /\ Goto(t, [self[t] EXCEPT !.pc = "call"])
             \/ /\ m_pool_state' = [m_pool_state EXCEPT ![Process] = "Terminating"]
                /\ Goto(t, [self[t] EXCEPT !.pc = "dead"])
          /\ UNCHANGED s_threads_exec
    /\ UNCHANGED <<config, process, s_current_function, global_lock, reduce_memory>>

(* wait_yield(m_pool_state, Inactive), and the test of the loop. *)
Awake(t) ==
    /\ t # Process /\ At(t, "idle")
    /\ m_pool_state[t] # "Inactive"
    /\ Goto(t, [Idle EXCEPT !.pc = IF m_pool_state[t] = "Active" THEN "call" ELSE "exit"])
    /\ UNCHANGED <<config, process, s_threads_exec, m_pool_state, s_current_function,
                   global_lock, reduce_memory>>

(* The call of s_current_function.  execute_resize_scratch replaces the    *)
(* memory; the kernels begin in ThreadsParallel.                           *)
Call(t) ==
    /\ At(t, "call")
    /\ LET f == s_current_function IN
         /\ Goto(t, [Idle EXCEPT !.fn = f,
                                 !.pc = CASE f \in {"noop", "resize"} -> "return"
                                          [] f = "sleep"  -> "sleep"
                                          [] f = "null"   -> "null_call"
                                          [] f \in Kernels -> "begin"])
         /\ IF f = "resize" THEN reduce_memory' = [reduce_memory EXCEPT ![t] = Scratch]
            ELSE UNCHANGED reduce_memory
    /\ UNCHANGED <<config, process, s_threads_exec, m_pool_state, s_current_function, global_lock>>

(* execute_sleep: wait for the lock, then for the fan; the state is set    *)
(* here, and once more by the driver.                                      *)
Sleep(t) ==
    /\ At(t, "sleep") /\ ~global_lock
    /\ Goto(t, Enter(t, self[t], "fan_in", "slept"))
    /\ UNCHANGED <<config, process, s_threads_exec, m_pool_state, s_current_function,
                   global_lock, reduce_memory>>

Slept(t) ==
    /\ At(t, "slept")
    /\ Set(t, "Inactive")
    /\ Goto(t, [self[t] EXCEPT !.pc = "return"])
    /\ UNCHANGED <<config, process, s_threads_exec, s_current_function, global_lock, reduce_memory>>

Return(t) ==
    /\ t # Process /\ At(t, "return")
    /\ Set(t, "Inactive")
    /\ Goto(t, Idle)
    /\ UNCHANGED <<config, process, s_threads_exec, s_current_function, global_lock, reduce_memory>>

(* The destructor. *)
Exit(t) ==
    /\ At(t, "exit")
    /\ s_threads_exec' = [s_threads_exec EXCEPT ![t] = Nil]
    /\ m_pool_state' = [m_pool_state EXCEPT ![t] = "Terminating", ![Process] = "Terminating"]
    /\ Goto(t, [Idle EXCEPT !.pc = "dead"])
    /\ UNCHANGED <<config, process, s_current_function, global_lock, reduce_memory>>

Driver(t) ==
    Construct(t) \/ Awake(t) \/ Call(t) \/ Sleep(t) \/ Slept(t) \/ Return(t) \/ Exit(t)


-----------------------------------------------------------------------------
(* The process.  initialize() spawns the threads one by one and waits      *)
(* until each has claimed its entry; a thread that could not be created is *)
(* passed over, one that could not claim an entry ends the loop.           *)

Spawn ==
    /\ process.pc = "spawn" /\ process.i < Size
    /\ Set(Process, "Inactive")
    /\ IF config.fault = [kind |-> "create", at |-> process.i]
       THEN Host([process EXCEPT !.i = @ + 1]) /\ UNCHANGED self
       ELSE /\ Host([process EXCEPT !.pc = "spawned"])
            /\ self' = [self EXCEPT ![process.i].pc = "construct"]
    /\ UNCHANGED <<config, s_threads_exec, s_current_function, global_lock, reduce_memory>>

Spawned ==
    /\ process.pc = "spawned" /\ m_pool_state[Process] # "Inactive"
    /\ Host(IF m_pool_state[Process] = "Terminating" THEN [process EXCEPT !.pc = "settle", !.i = Begin]
            ELSE [process EXCEPT !.pc = "spawn", !.i = @ + 1])
    /\ UNCHANGED <<config, s_threads_exec, m_pool_state, s_current_function, global_lock,
                   self, reduce_memory>>

(* "Wait for all spawned threads to deactivate before zeroing the          *)
(* function": those that have an entry.                                    *)
Settle ==
    /\ \/ /\ process.pc = "spawn" /\ process.i = Size
          /\ Host([process EXCEPT !.pc = "settle", !.i = Begin])
       \/ /\ process.pc = "settle" /\ process.i < Size
          /\ LET th == s_threads_exec[process.i] IN th # Nil => m_pool_state[th] # "Active"
          /\ Host([process EXCEPT !.i = @ + 1])
    /\ UNCHANGED <<config, s_threads_exec, m_pool_state, s_current_function, global_lock,
                   self, reduce_memory>>

(* Mutant: the state of the process stays as the last thread has set it. *)
InitializedWithoutReset ==
    /\ process.pc = "settle" /\ process.i = Size
    /\ s_current_function' = "null"
    /\ IF \E e \in Begin..(Size - 1) : s_threads_exec[e] = Nil
       THEN Host([process EXCEPT !.pc = "failed"]) /\ UNCHANGED s_threads_exec
       ELSE /\ Host([process EXCEPT !.pc = "fence"])
            /\ IF config.process THEN s_threads_exec' = [s_threads_exec EXCEPT ![0] = Process]
               ELSE UNCHANGED s_threads_exec
    /\ UNCHANGED <<config, m_pool_state, global_lock, self, reduce_memory>>

(* With a thread missing initialize() throws; otherwise the process may    *)
(* join the pool, and the first resize_scratch() follows.                  *)
Initialized ==
    /\ process.pc = "settle" /\ process.i = Size
    /\ s_current_function' = "null"
    /\ Set(Process, "Inactive")
    /\ IF \E e \in Begin..(Size - 1) : s_threads_exec[e] = Nil
       THEN Host([process EXCEPT !.pc = "failed"]) /\ UNCHANGED s_threads_exec
       ELSE /\ Host([process EXCEPT !.pc = "fence"])
            /\ IF config.process THEN s_threads_exec' = [s_threads_exec EXCEPT ![0] = Process]
               ELSE UNCHANGED s_threads_exec
    /\ UNCHANGED <<config, global_lock, self, reduce_memory>>

-----------------------------------------------------------------------------
(* start(), fence() and the calls that are built from them. *)

NextCall(c) ==
    /\ process.pc = "main" /\ process.left # << >> /\ Head(process.left) = c

(* start() throws when a function is set. *)
Start(kernel) ==
    /\ NextCall(kernel) /\ s_current_function = "null"
    /\ s_current_function' = kernel
    /\ Host([pc |-> "activate", i |-> Size, call |-> kernel, left |-> Tail(process.left)])
    /\ UNCHANGED <<config, s_threads_exec, m_pool_state, global_lock, self, reduce_memory>>

(* fence(), resize_scratch() (which does no more than that when the memory *)
(* suffices), sleep() and finalize() begin with a fence.                   *)
FenceFirst(c) ==
    /\ NextCall(c) /\ ~(c = "sleep" /\ s_current_function = "sleep")
    /\ Host([process EXCEPT !.pc = "fence", !.call = c, !.left = Tail(@)])
    /\ UNCHANGED <<config, s_threads_exec, m_pool_state, s_current_function, global_lock,
                   self, reduce_memory>>

(* sleep() of a pool that sleeps, and wake() of one that does not, return  *)
(* false.                                                                  *)
Refuse ==
    /\ \/ NextCall("sleep") /\ s_current_function = "sleep"
       \/ NextCall("wake") /\ s_current_function # "sleep"
    /\ Host([process EXCEPT !.left = Tail(@)])
    /\ UNCHANGED <<config, s_threads_exec, m_pool_state, s_current_function, global_lock,
                   self, reduce_memory>>

(* sleep() after its fence. *)
Lock ==
    /\ process.pc = "lock"
    /\ global_lock' = TRUE
    /\ s_current_function' = "sleep"
    /\ Host([process EXCEPT !.pc = "activate", !.i = Size])
    /\ UNCHANGED <<config, s_threads_exec, m_pool_state, self, reduce_memory>>

(* The process runs the function itself when it is the root. *)
RunOrFence(call, left) ==
    /\ Host([pc |-> IF config.process THEN "run" ELSE "fence", i |-> 0, call |-> call, left |-> left])
    /\ self' = IF config.process THEN [self EXCEPT ![Process].pc = "call"] ELSE self

(* Mutant: the threads are activated from the root on. *)
ActivateRootFirst ==
    /\ process.pc = "activate"
    /\ Set(s_threads_exec[Size - process.i], "Active")
    /\ IF process.i > 1 THEN Host([process EXCEPT !.i = @ - 1]) /\ UNCHANGED self
       ELSE IF process.call = "sleep"
       THEN Host([process EXCEPT !.pc = "main", !.i = 0]) /\ UNCHANGED self
       ELSE RunOrFence(process.call, process.left)
    /\ UNCHANGED <<config, s_threads_exec, s_current_function, global_lock, reduce_memory>>

Activate ==
    /\ process.pc = "activate"
    /\ Set(s_threads_exec[process.i - 1], "Active")
    /\ IF process.i > 1 THEN Host([process EXCEPT !.i = @ - 1]) /\ UNCHANGED self
       ELSE IF process.call = "sleep"
       THEN Host([process EXCEPT !.pc = "main", !.i = 0]) /\ UNCHANGED self
       ELSE RunOrFence(process.call, process.left)
    /\ UNCHANGED <<config, s_threads_exec, s_current_function, global_lock, reduce_memory>>

Wake ==
    /\ NextCall("wake") /\ s_current_function = "sleep"
    /\ global_lock' = FALSE
    /\ RunOrFence("wake", Tail(process.left))
    /\ UNCHANGED <<config, s_threads_exec, m_pool_state, s_current_function, reduce_memory>>

Ran ==
    /\ process.pc = "run" /\ At(Process, "return")
    /\ Set(Process, "Inactive")
    /\ Goto(Process, Idle)
    /\ Host([process EXCEPT !.pc = "fence"])
    /\ UNCHANGED <<config, s_threads_exec, s_current_function, global_lock, reduce_memory>>

(* Mutant: fence() clears the function without waiting. *)
FenceAtOnce ==
    /\ process.pc = "fence"
    /\ s_current_function' = "null"
    /\ Host([process EXCEPT !.i = Size,
                            !.pc = CASE process.call \in {"initialize", "resize", "finalize"} -> "serial"
                                     [] process.call = "sleep" -> "lock"
                                     [] OTHER -> "main"])
    /\ UNCHANGED <<config, s_threads_exec, m_pool_state, global_lock, self, reduce_memory>>

(* Only the root is waited for. *)
Fence ==
    /\ process.pc = "fence"
    /\ m_pool_state[s_threads_exec[0]] # "Active"
    /\ s_current_function' = "null"
    /\ Host([process EXCEPT !.i = Size,
                            !.pc = CASE process.call \in {"initialize", "resize", "finalize"} -> "serial"
                                     [] process.call = "sleep" -> "lock"
                                     [] OTHER -> "main"])
    /\ UNCHANGED <<config, s_threads_exec, m_pool_state, global_lock, self, reduce_memory>>

(* execute_serial: one thread at a time, the process last. *)
Serial ==
    /\ process.pc = "serial"
    /\ s_current_function' = "resize"
    /\ IF process.i > Begin
       THEN /\ Set(s_threads_exec[process.i - 1], "Active")
            /\ Host([process EXCEPT !.pc = "serial_wait"])
            /\ UNCHANGED reduce_memory
       ELSE /\ Host([process EXCEPT !.pc = "serial_end"])
            /\ IF config.process THEN reduce_memory' = [reduce_memory EXCEPT ![Process] = Scratch]
               ELSE UNCHANGED reduce_memory
            /\ UNCHANGED m_pool_state
    /\ UNCHANGED <<config, s_threads_exec, global_lock, self>>

SerialWait ==
    /\ process.pc = "serial_wait"
    /\ m_pool_state[s_threads_exec[process.i - 1]] # "Active"
    /\ Host([process EXCEPT !.pc = "serial", !.i = @ - 1])
    /\ UNCHANGED <<config, s_threads_exec, m_pool_state, s_current_function, global_lock,
                   self, reduce_memory>>

SerialEnd ==
    /\ process.pc = "serial_end"
    /\ s_current_function' = "null"
    /\ Host([process EXCEPT !.pc = IF process.call = "finalize" THEN "terminate" ELSE "main",
                            !.i = Size])
    /\ UNCHANGED <<config, s_threads_exec, m_pool_state, global_lock, self, reduce_memory>>

(* finalize(): one thread at a time, until it has left its entry. *)
Terminate ==
    /\ process.pc = "terminate"
    /\ IF process.i > Begin
       THEN /\ Set(s_threads_exec[process.i - 1], "Terminating")
            /\ Host([process EXCEPT !.pc = "terminate_wait"])
            /\ UNCHANGED s_threads_exec
       ELSE /\ s_threads_exec' = [e \in Entries |-> IF e = 0 THEN Nil ELSE s_threads_exec[e]]
            /\ Set(Process, "Inactive")
            /\ Host([process EXCEPT !.pc = "finalized"])
    /\ UNCHANGED <<config, s_current_function, global_lock, self, reduce_memory>>

TerminateWait ==
    /\ process.pc = "terminate_wait" /\ m_pool_state[Process] # "Inactive"
    /\ Set(Process, "Inactive")
    /\ Host([process EXCEPT !.pc = "terminate", !.i = @ - 1])
    /\ UNCHANGED <<config, s_threads_exec, s_current_function, global_lock, self, reduce_memory>>

HostStep ==
    \/ Spawn \/ Spawned \/ Settle \/ Initialized
    \/ (\E c \in {"fence", "resize", "sleep", "finalize"} : FenceFirst(c))
    \/ Refuse \/ Lock \/ Activate \/ Wake \/ Ran \/ Fence
    \/ Serial \/ SerialWait \/ SerialEnd \/ Terminate \/ TerminateWait
=============================================================================
