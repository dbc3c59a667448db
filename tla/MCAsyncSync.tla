---------------------------- MODULE MCAsyncSync ----------------------------
(* Instances of AsyncSync for TLC: who meets on a mutex, on a condition        *)
(* variable with its mutex, and on a semaphore.                              *)
EXTENDS AsyncSync, TLC
SyncCalls == Users \X (0..TryCall)
SyncTryCalls == Users \X {TryCall}
SyncStoppable == Users \X {0}
Does(kind, n, home) == [kind |-> kind, n |-> n, home |-> home, stop |-> FALSE]
May(kind, home) == [kind |-> kind, n |-> 0, home |-> home, stop |-> TRUE]
Nothing == Does("none", 0, "other")
Four(w, x, y, z) == <<w, x, y, z>>
MCScenarios == {
    \* the mutex, on one thread and on several
    Four(May("lock", "loop"), May("lock", "loop"), Does("lock", 0, "loop"), Does("try", 0, "loop")),
    Four(May("lock", "loop"), Does("lock", 0, "loop"), May("lock", "other"), Does("try", 0, "other")),
    \* the condition variable: on the loop, with producers and consumers elsewhere
    Four(May("consume", "loop"), Does("consume", 0, "loop"), Does("produce", 1, "loop"), Does("produce", 1, "loop")),
    Four(May("consume", "loop"), Does("consume", 0, "loop"), Does("produce", 1, "other"), Nothing),
    Four(May("consume", "other"), Does("consume", 0, "loop"), Does("produce", 2, "loop"), Nothing),
    \* the semaphore
    Four(May("acquire", "loop"), Does("acquire", 0, "loop"), Does("release", 2, "loop"), Does("take", 0, "loop")),
    Four(May("acquire", "other"), Does("acquire", 0, "loop"), Does("release", 2, "other"), Does("take", 0, "other")),
    Four(May("acquire", "loop"), Does("acquire", 0, "other"), Does("release", 1, "loop"), Does("release", 1, "other"))}
=============================================================================
