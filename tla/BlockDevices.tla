---------------------------- MODULE BlockDevices ----------------------------
(***************************************************************************)
(* The block devices under the file system: the ATA disk driver            *)
(* (kernel/src/io/disk/ata_lba.rs), whose requests wait in ATA_QUEUE and   *)
(* are completed by the interrupt handler, and the MBR partitions and the  *)
(* default multi-block loops on top of it                                  *)
(* (library/filesystem/src/device/mbr.rs and mod.rs).                      *)
(*                                                                         *)
(* A boot task formats the table of an empty disk, identifies the disk and *)
(* mounts the partitions; then caller c issues calls on partition c.  A    *)
(* call is split into single-block requests, submitted one after another.  *)
(* Queue and handler work with interrupts off, so each is one step.  The   *)
(* drive itself is the environment: it executes the command it holds,      *)
(* raises an interrupt, and may lose it.                                   *)
(***************************************************************************)
EXTENDS Integers, Sequences, FiniteSets

CONSTANTS
    Callers,        \* tasks with a partition of their own: 1 .. n
    Blocks,         \* block_count of the disk
    MaxCalls,       \* bound: calls issued in a behaviour
    MaxLost         \* bound: interrupts lost and commands failed

ASSUME BlockAssumption == Blocks \in Nat \ {0} /\ Callers \subseteq Nat \ {0}

None == 0
Boot == -1
TableBlock == -1
Tasks == Callers \cup {Boot}

VARIABLES
    inflight, queue,    \* ATA_QUEUE: the request sent to the drive, and those behind it
    req,                \* the request of each task: op, lba, val (its buffer), error, done
    drive,              \* phase, the command it holds, whether it failed, the data port
    table, media,       \* the partition table, in block 0, and the blocks
    irq,                \* an interrupt of the drive is pending
    disks,              \* what mount returned: task -> [start, end]
    call,               \* the call of each task: op, next block, blocks left, answer
    truth,              \* ghost: what the drive did for the request
    line,               \* ghost: submitted requests the drive has not finished, oldest first
    calls, lost, stray  \* calls issued, faults so far, an out-of-range call was made

blkVars == <<inflight, queue, req, drive, table, media, irq, disks, call, truth, line, calls, lost, stray>>

Table == [start : 1 .. Blocks, end : 1 .. Blocks]
Idle == [op |-> "none", next |-> 0, left |-> 0, answer |-> "none"]
NoReq == [op |-> "none", lba |-> 0, val |-> 0, error |-> FALSE, done |-> FALSE]
Resting == [phase |-> "idle", of |-> None, err |-> FALSE, port |-> 0]

-----------------------------------------------------------------------------
(* send_io_command: the registers are written; a write also waits for DRQ  *)
(* and pushes its data, so the drive has the block once it is sent.        *)
send_io_command(t) ==
    drive' = [phase |-> "busy", of |-> t, err |-> FALSE, port |-> 0]

NewReq(op, lba, val) == [op |-> op, lba |-> lba, val |-> val, error |-> FALSE, done |-> FALSE]

\* Variant: the request is sent although the drive holds another
Submit_anyway(t, r) ==
    /\ req' = [req EXCEPT ![t] = r]
    /\ line' = Append(line, t)
    /\ send_io_command(t) /\ inflight' = t /\ UNCHANGED queue
(* The Init arm of a block future: send the request, or queue it.          *)
Submit(t, r) ==
    /\ req' = [req EXCEPT ![t] = r]
    /\ line' = Append(line, t)
    /\ IF inflight # None
       THEN queue' = Append(queue, t) /\ UNCHANGED <<inflight, drive>>
       ELSE send_io_command(t) /\ inflight' = t /\ UNCHANGED queue

(* The drive finishes its command and asks for an interrupt.  A read may   *)
(* first raise one with neither busy nor data-request set.                 *)
DriveEarly ==
    /\ drive.phase = "busy" /\ req[drive.of].op = "read" /\ ~irq
    /\ drive' = [drive EXCEPT !.phase = "early"] /\ irq' = TRUE
    /\ UNCHANGED <<inflight, queue, req, table, media, disks, call, truth, line, calls, lost, stray>>

DriveDone(err) ==
    LET t == drive.of
        bad == err \/ req[t].lba \notin 0 .. Blocks - 1
        data == IF req[t].op = "identify" THEN Blocks
                ELSE IF bad THEN 0 ELSE media[req[t].lba]
    IN  /\ drive.phase \in {"busy", "early"} /\ ~irq
        /\ err => lost < MaxLost
        /\ lost' = IF err THEN lost + 1 ELSE lost
        /\ media' = IF req[t].op = "write" /\ ~bad THEN [media EXCEPT ![req[t].lba] = req[t].val]
                                                   ELSE media
        /\ drive' = [drive EXCEPT !.phase = "done", !.err = bad, !.port = data]
        /\ truth' = [truth EXCEPT ![t] = [error |-> bad, data |-> data]]
        /\ irq' = TRUE
        /\ UNCHANGED <<inflight, queue, req, table, disks, call, line, calls, stray>>

LoseIrq ==
    /\ irq /\ lost < MaxLost
    /\ irq' = FALSE /\ lost' = lost + 1
    /\ UNCHANGED <<inflight, queue, req, drive, table, media, disks, call, truth, line, calls, stray>>

(* The end of ata_irq: the next request in the queue is sent.              *)
\* Variant: the queue is not looked at
SendNext_never == inflight' = None /\ drive' = Resting /\ UNCHANGED queue
SendNext ==
    IF queue = <<>> THEN inflight' = None /\ drive' = Resting /\ UNCHANGED queue
    ELSE send_io_command(Head(queue)) /\ inflight' = Head(queue) /\ queue' = Tail(queue)

(* A finished request: error bit kept, data read from the port.            *)
Completed(r) ==
    [r EXCEPT !.done = TRUE, !.error = drive.err,
              !.val = IF ~drive.err /\ r.op \in {"read", "identify"} THEN drive.port ELSE @]

(* The ghost line without its k-th request.                                *)
LineWithout(k) == [j \in 1 .. Len(line) - 1 |-> IF j < k THEN line[j] ELSE line[j + 1]]

ata_irq ==
    /\ irq /\ irq' = FALSE
    /\ IF drive.phase \in {"busy", "idle"} \/ (drive.phase = "early" /\ inflight # None)
       THEN UNCHANGED <<inflight, queue, req, drive, line>>
       ELSE /\ req' = [req EXCEPT ![inflight] = Completed(@)]
            /\ \E k \in DOMAIN line : line[k] = inflight /\ line' = LineWithout(k)
            /\ SendNext
    /\ UNCHANGED <<table, media, disks, call, truth, calls, lost, stray>>

-----------------------------------------------------------------------------
(* Partitions.  mount skips an entry that does not fit the disk; format    *)
(* refuses the whole table.                                                *)
MountOk(p, count) == p.start # 0 /\ p.start < count /\ p.end <= count
FormatOk(p) == p.start # 0 /\ p.start <= p.end /\ p.end <= Blocks
blocks_of(p) == p.end - p.start

(* The range checks compare the index in the partition with the end of the *)
(* partition on the disk; the one for a single block lets the end pass.    *)
OutOfBounds(p, i, n) == IF n = 1 THEN i > p.end ELSE i + n > p.end

InContract(p, i, n) == i + n <= blocks_of(p)

Translate(p, i) == i + p.start

(* A call on partition t: the check, then the first request.               *)
Call(t, op, i, n, val) ==
    LET p == disks[t] IN
    /\ calls < MaxCalls /\ call[t].op = "none" /\ t \in DOMAIN disks
    /\ calls' = calls + 1
    /\ stray' = (stray \/ ~InContract(p, i, n))
    /\ IF OutOfBounds(p, i, n)
       THEN /\ call' = [call EXCEPT ![t].answer = "bounds"]
            /\ UNCHANGED <<inflight, queue, req, drive, line>>
       ELSE /\ Submit(t, NewReq(op, Translate(p, i), val))
            /\ call' = [call EXCEPT ![t] = [op |-> op, next |-> i + 1, left |-> n - 1,
                                            answer |-> "none"]]
    /\ UNCHANGED <<table, media, irq, disks, truth, lost>>

(* The WaitDevice arm, polled after the handler woke the task: the error   *)
(* ends the call, otherwise the loop submits the next block.               *)
Poll(t) ==
    /\ call[t].op \in {"read", "write"} /\ req[t].done
    /\ IF req[t].error \/ call[t].left = 0
       THEN /\ call' = [call EXCEPT ![t] = [Idle EXCEPT
                            !.answer = IF req[t].error THEN "error" ELSE "ok"]]
            /\ req' = [req EXCEPT ![t] = NoReq]
            /\ UNCHANGED <<inflight, queue, drive, line>>
       ELSE /\ Submit(t, NewReq(call[t].op, Translate(disks[t], call[t].next), req[t].val))
            /\ call' = [call EXCEPT ![t].next = @ + 1, ![t].left = @ - 1]
    /\ UNCHANGED <<table, media, irq, disks, truth, calls, lost, stray>>

(* init_disk: identify the drive, read block 0, keep the partitions that   *)
(* fit.  An error leaves the system without a file system.                 *)
Identify ==
    /\ call[Boot] = Idle /\ calls = 0 /\ disks = <<>>
    /\ Submit(Boot, NewReq("identify", 0, 0))
    /\ call' = [call EXCEPT ![Boot].op = "identify"]
    /\ UNCHANGED <<table, media, irq, disks, truth, calls, lost, stray>>

ReadTable ==
    /\ call[Boot].op = "identify" /\ req[Boot].done
    /\ IF req[Boot].error
       THEN /\ call' = [call EXCEPT ![Boot] = [Idle EXCEPT !.answer = "error"]]
            /\ UNCHANGED <<inflight, queue, req, drive, line>>
       ELSE /\ Submit(Boot, NewReq("read", 0, 0))
            /\ call' = [call EXCEPT ![Boot].op = "mount", ![Boot].left = req[Boot].val]
    /\ UNCHANGED <<table, media, irq, disks, truth, calls, lost, stray>>

mount ==
    /\ call[Boot].op = "mount" /\ req[Boot].done
    /\ IF req[Boot].error
       THEN call' = [call EXCEPT ![Boot] = [Idle EXCEPT !.answer = "error"]] /\ UNCHANGED disks
       ELSE /\ disks' = [t \in {c \in Callers : MountOk(table[c], call[Boot].left)} |-> table[t]]
            /\ call' = [call EXCEPT ![Boot] = [Idle EXCEPT !.answer = "ok"]]
    /\ req' = [req EXCEPT ![Boot] = NoReq]
    /\ UNCHANGED <<inflight, queue, drive, table, media, irq, truth, line, calls, lost, stray>>

(* format wrote a table; the other blocks hold nothing yet.                *)
blkInit ==
    /\ table \in [Callers -> Table] /\ \A c \in Callers : FormatOk(table[c])
    /\ media = [b \in 0 .. Blocks - 1 |-> IF b = 0 THEN TableBlock ELSE 0]
    /\ inflight = None /\ queue = <<>> /\ req = [t \in Tasks |-> NoReq]
    /\ drive = Resting /\ irq = FALSE /\ disks = <<>>
    /\ call = [t \in Tasks |-> Idle]
    /\ truth = [t \in Tasks |-> [error |-> FALSE, data |-> 0]]
    /\ line = <<>> /\ calls = 0 /\ lost = 0 /\ stray = FALSE

blkNext ==
    \/ Identify \/ ReadTable \/ mount
    \/ \E t \in Callers \cap DOMAIN disks, i \in 0 .. Blocks, n \in 1 .. 2 :
         Call(t, "write", i, n, t) \/ Call(t, "read", i, n, 0)
    \/ \E t \in Callers : Poll(t)
    \/ ata_irq
    \/ DriveEarly \/ LoseIrq \/ \E err \in BOOLEAN : DriveDone(err)

blkSpec == blkInit /\ [][blkNext]_blkVars

-----------------------------------------------------------------------------
(* Properties.                                                             *)

(* The drive works on the oldest unfinished request, the one recorded as   *)
(* in flight, and a queued request never waits behind an idle drive:       *)
(* commands are executed in the order the tasks submitted them.            *)
InOrder ==
    /\ inflight # None => line # <<>> /\ line[1] = inflight /\ drive.of = inflight
    /\ inflight = None => line = <<>> /\ drive.phase = "idle"
    /\ line = (IF inflight = None THEN <<>> ELSE <<inflight>> \o queue)

(* A finished request tells its task what the drive did for that very      *)
(* request: its error, and for a read the data of its block, not of a      *)
(* command sent since.                                                     *)
AnswerIsDrives ==
    \A t \in Tasks : req[t].done =>
        /\ req[t].error <=> truth[t].error
        /\ req[t].op \in {"read", "identify"} /\ ~req[t].error => req[t].val = truth[t].data

(* As long as every call keeps to 0..block_count(), a partition's blocks     *)
(* hold only what its own task wrote and block 0 keeps the table, whatever *)
(* the calls of the other partitions do meanwhile.                         *)
PartitionsApart ==
    ~stray =>
      /\ media[0] = TableBlock
      /\ \A b \in 1 .. Blocks - 1 :
            media[b] # 0 => media[b] \in DOMAIN disks
                            /\ b \in disks[media[b]].start .. disks[media[b]].end - 1

(* mount finds the partitions that format accepted, empty ones apart.      *)
FormatMounts ==
    disks # <<>> \/ call[Boot].answer = "ok" =>
        \A c \in Callers : table[c].start < table[c].end =>
            c \in DOMAIN disks /\ disks[c] = table[c]

(* A call is answered with success only after each of its blocks was       *)
(* transferred: a failed block in the middle of the loop ends it.          *)
ErrorsReported ==
    \A t \in Callers : truth[t].error /\ call[t].op = "none" => call[t].answer # "ok"

(* Every call is answered as long as no interrupt is lost: the handler     *)
(* keeps the queue moving.  A lost interrupt stops every task for good.    *)
CallsAnswered ==
    \A t \in Callers : call[t].op # "none" ~> (call[t].op = "none" \/ lost > 0)

(* The disk: requests are executed in order, a request is answered with what *)
(* the drive did for it and a call with its errors, and what is written in   *)
(* one partition stays in it.                                                *)
DiskSafe ==
    InOrder /\ AnswerIsDrives /\ ErrorsReported /\ PartitionsApart /\ FormatMounts

-----------------------------------------------------------------------------
(* The inductive invariant.                                                *)

Ops == {"none", "identify", "read", "write"}
Requests == [op : Ops, lba : Nat, val : Int, error : BOOLEAN, done : BOOLEAN]
Drives == [phase : {"idle", "busy", "early", "done"}, of : Tasks \cup {None}, err : BOOLEAN, port : Int]
CallStates == [op : Ops \cup {"mount"}, next : Nat, left : Nat, answer : {"none", "ok", "error", "bounds"}]

QueueTypes ==
    /\ inflight \in Tasks \cup {None} /\ queue \in Seq(Tasks) /\ line \in Seq(Tasks)
    /\ req \in [Tasks -> Requests] /\ drive \in Drives /\ irq \in BOOLEAN
BlkTypes ==
    /\ QueueTypes
    /\ table \in [Callers -> Table] /\ media \in [0 .. Blocks - 1 -> Int]
    /\ call \in [Tasks -> CallStates] /\ truth \in [Tasks -> [error : BOOLEAN, data : Int]]
    /\ stray \in BOOLEAN

(* A task is in line at most once, for the request it waits for.           *)
LineInv ==
    /\ \A j, k \in DOMAIN line : line[j] = line[k] => j = k
    /\ \A k \in DOMAIN line : call[line[k]].op # "none" /\ ~req[line[k]].done

(* The drive is idle between requests, and when it is done it holds the    *)
(* answer to the request in flight.                                        *)
DriveInv ==
    /\ inflight = None <=> drive.phase = "idle"
    /\ inflight = None => queue = <<>>
    /\ irq => drive.phase \in {"early", "done"}
    /\ drive.phase = "done" =>
         /\ truth[inflight].error <=> drive.err
         /\ truth[inflight].data = drive.port
         /\ req[inflight].op = "identify" => drive.port = Blocks

(* init_disk: the table is read after identify told the size of the disk,  *)
(* and disks is set once.                                                  *)
BootInv ==
    /\ call[Boot].op \in {"none", "identify", "mount"}
    /\ call[Boot].op # "none" => call[Boot].answer = "none"
    /\ call[Boot].op = "identify" => req[Boot].op = "identify"
    /\ req[Boot].op # "write"
    /\ call[Boot].op = "mount" => call[Boot].left = Blocks
    /\ req[Boot].op = "identify" /\ req[Boot].done /\ ~req[Boot].error => req[Boot].val = Blocks
    /\ call[Boot].answer # "ok" => disks = <<>>
    /\ call[Boot].answer = "ok" =>
         /\ DOMAIN disks = {c \in Callers : MountOk(table[c], Blocks)}
         /\ \A c \in DOMAIN disks : disks[c] = table[c]

(* The loop of a call: its request is for the block before next, and what  *)
(* is left stays in the partition if the call did.                         *)
CallOk(t) ==
    call[t].op # "none" =>
        /\ t \in DOMAIN disks /\ req[t].op = call[t].op /\ call[t].op \in {"read", "write"}
        /\ call[t].op = "write" => req[t].val = t
        /\ call[t].next > 0 /\ req[t].lba = Translate(disks[t], call[t].next - 1)
        /\ ~stray => InContract(disks[t], call[t].next, call[t].left)
CallInv == \A t \in Callers : CallOk(t)

BlkInv == BlkTypes /\ LineInv /\ DriveInv /\ BootInv /\ CallInv
            /\ (\A c \in Callers : FormatOk(table[c])) /\ DiskSafe
==============================================================================
