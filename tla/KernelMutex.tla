----------------------------- MODULE KernelMutex -----------------------------
(***************************************************************************)
(* The kernel's struct mutex, as far as the code in src/ relies on it.     *)
(* A task is a kernel thread or a process inside a system call.            *)
(***************************************************************************)
CONSTANTS Tasks,
          Signalled,  (* the tasks that may have a signal pending; never a
                         kernel thread, which ignores signals              *)
          NoTask      (* the owner of a free mutex                         *)

ASSUME TasksAssumption == Signalled \subseteq Tasks /\ NoTask \notin Tasks

VARIABLE owner

MutexFree == owner = NoTask

(* mutex_lock_interruptible returns 0: the mutex was free. *)
Acquire(t) == MutexFree /\ owner' = t

(* mutex_lock_interruptible returns -EINTR: only a task that has to wait    *)
(* looks at its signals.                                                    *)
Interrupted(t) == t \in Signalled /\ ~MutexFree /\ UNCHANGED owner

(* mutex_unlock frees the mutex, whoever holds it. *)
Unlock == owner' = NoTask

=============================================================================
