------------------------------- MODULE MCAsync -------------------------------
(* The asynchronous runtime for TLC: the tasks of the kernel thread's      *)
(* runtime in one behaviour, a system call in block_on() in another.       *)
EXTENDS AsyncRuntime, BlockOn

VARIABLE part

asyncVars == <<part, vars, blockVars>>

MCInit == part \in {"runtime", "block_on"} /\ Init /\ BlockInit

Only(p, Step, rest) == part = p /\ Step /\ UNCHANGED <<part, rest>>
MCNext ==
  \/ Only("runtime", Next, blockVars)
  \/ Only("block_on", BlockNext, vars)

MCSpec ==
  /\ MCInit /\ [][MCNext]_asyncVars
  /\ part = "runtime" => RuntimeFairness
  /\ part = "block_on" => BlockFairness
==============================================================================
