------------------------------ MODULE Sandboxes ------------------------------
(***************************************************************************)
(* The sandbox adapter.  The server keeps immutable states; a sandbox is a *)
(* key of the adapter's table with a handle to the state it stands at.  A  *)
(* call reads the handle, waits for the server in a thread and, if all     *)
(* went well, moves the sandbox to the state the call made.  Calls of one  *)
(* sandbox may overlap: nothing locks it between the read and the move.    *)
(*                                                                         *)
(* What a state holds is the set of the calls whose effects it has; a call *)
(* brings the fresh number that the state or the key it makes will have.   *)
(***************************************************************************)
EXTENDS Naturals, FiniteSets

CONSTANTS Callers,   \* clients of the adapter
          MaxCalls   \* bound: calls that make a state or a key

VARIABLES baseKnown,  \* the base image is given by its uuid, so every sandbox of it has one key
          server,     \* [state -> calls whose effects it holds]
          images,     \* [key -> state]: the adapter's table
          call,       \* [Callers -> the call at work]
          returned,   \* calls that returned a result
          told,       \* [key -> what callers were told the sandbox holds]
          saved,      \* [state -> what callers were told it holds]
          serial,     \* keys that one caller at a time used
          sure        \* states made by serial use

sandboxVars == <<baseKnown, server, images, call, returned, told, saved, serial, sure>>

Base    == 0
Numbers == 1..MaxCalls
States  == {Base} \cup Numbers
Gone    == MaxCalls + 1     \* not in the table

Moves == {"run", "write"}   \* calls that move the sandbox
Ops   == Moves \cup {"disposable", "checkpoint"}

Idle == [op |-> "none", key |-> Base, held |-> Base, number |-> 0]

SandboxInit ==
  /\ baseKnown \in BOOLEAN
  /\ server = [s \in States |-> {}] /\ saved = server
  /\ images = [k \in States |-> Gone]
  /\ told = [k \in States |-> {}]
  /\ call = [c \in Callers |-> Idle]
  /\ returned = {}
  /\ serial = States /\ sure = {Base}

Busy(k) == \E c \in Callers : call[c].op # "none" /\ call[c].key = k

Unshared(k, ok) == IF ok /\ ~Busy(k) THEN serial \cup {k} ELSE serial \ {k}

(* create_sandbox: a key of its own, or the base image's uuid, which every  *)
(* other sandbox of the image has too.                                      *)
KeyOf(n) == IF baseKnown THEN Base ELSE n

CreateSandbox(n) ==
  /\ images' = [images EXCEPT ![KeyOf(n)] = Base]
  /\ told' = [told EXCEPT ![KeyOf(n)] = {}]
  /\ serial' = Unshared(KeyOf(n), images[KeyOf(n)] = Gone /\ KeyOf(n) \in serial)
  /\ UNCHANGED <<baseKnown, server, call, returned, saved, sure>>

(* A call starts: an unknown sandbox raises; the handle is read here.       *)
Begin(c, op, k, n) ==
  /\ call[c] = Idle
  /\ images[k] # Gone
  /\ call' = [call EXCEPT ![c] = [op |-> op, key |-> k, held |-> images[k], number |-> n]]
  /\ serial' = Unshared(k, k \in serial)
  /\ UNCHANGED <<baseKnown, server, images, returned, told, saved, sure>>

(* run_command of a durable command and write_file: the sandbox moves to    *)
(* the state made; a command whose state has no uuid says so and moves none. *)
ReturnMoved(c) ==
  LET k == call[c].key  n == call[c].number IN
  /\ call[c].op \in Moves
  /\ \E kept \in (IF call[c].op = "run" THEN BOOLEAN ELSE {TRUE}) :
       IF kept
       THEN /\ server' = [server EXCEPT ![n] = server[call[c].held] \cup {n}]
            /\ images' = [images EXCEPT ![k] = n]
            /\ told' = [told EXCEPT ![k] = @ \cup {n}]
            /\ saved' = [saved EXCEPT ![n] = told[k] \cup {n}]
            /\ sure' = IF k \in serial THEN sure \cup {n} ELSE sure
            /\ returned' = returned \cup {n}
       ELSE UNCHANGED <<server, images, told, saved, sure, returned>>
  /\ call' = [call EXCEPT ![c] = Idle]
  /\ UNCHANGED <<baseKnown, serial>>

ReturnDisposable(c) ==
  /\ call[c].op = "disposable"
  /\ call' = [call EXCEPT ![c] = Idle]
  /\ UNCHANGED <<baseKnown, server, images, returned, told, saved, serial, sure>>

(* checkpoint: the state made is a sandbox of its own; the one it was taken *)
(* of stays where it was.                                                   *)
ReturnCheckpoint(c) ==
  LET k == call[c].key  n == call[c].number IN
  /\ call[c].op = "checkpoint"
  /\ server' = [server EXCEPT ![n] = server[call[c].held]]
  /\ images' = [images EXCEPT ![n] = n]
  /\ told' = [told EXCEPT ![n] = told[k]]
  /\ saved' = [saved EXCEPT ![n] = told[k]]
  /\ IF k \in serial THEN sure' = sure \cup {n} /\ UNCHANGED serial
                     ELSE serial' = serial \ {n} /\ UNCHANGED sure
  /\ returned' = returned \cup {n}
  /\ call' = [call EXCEPT ![c] = Idle]
  /\ UNCHANGED baseKnown

(* The server refuses, the time is up (also when the command had ended by   *)
(* then), or the caller is cancelled while its thread waits: whatever the   *)
(* command did, the sandbox stays where it was.                             *)
LateButKept(c) ==
  LET n == call[c].number IN
  /\ call[c].op # "none"
  /\ server' = [server EXCEPT ![n] = server[call[c].held] \cup {n}]
  /\ images' = [images EXCEPT ![call[c].key] = n]
  /\ call' = [call EXCEPT ![c] = Idle]
  /\ UNCHANGED <<baseKnown, returned, told, saved, serial, sure>>

Fail(c) ==
  /\ call[c].op # "none"
  /\ call' = [call EXCEPT ![c] = Idle]
  /\ UNCHANGED <<baseKnown, server, images, returned, told, saved, serial, sure>>

(* rollback does not look whether the sandbox is known: the handle is made  *)
(* from the checkpoint's id.                                                *)
RollbackToHandle(k, s) ==
  /\ images' = [images EXCEPT ![k] = IF images[s] = Gone THEN s ELSE images[s]]
  /\ told' = [told EXCEPT ![k] = saved[s]]
  /\ serial' = Unshared(k, s \in sure)
  /\ UNCHANGED <<baseKnown, server, call, returned, saved, sure>>

Rollback(k, s) ==
  /\ images' = [images EXCEPT ![k] = s]
  /\ told' = [told EXCEPT ![k] = saved[s]]
  /\ serial' = Unshared(k, s \in sure)
  /\ UNCHANGED <<baseKnown, server, call, returned, saved, sure>>

(* destroy forgets the handle; a call that waits moves the sandbox back in. *)
Destroy(k) ==
  /\ images[k] # Gone
  /\ images' = [images EXCEPT ![k] = Gone]
  /\ told' = [told EXCEPT ![k] = {}]
  /\ serial' = Unshared(k, k \in serial)
  /\ UNCHANGED <<baseKnown, server, call, returned, saved, sure>>

Return(c) == ReturnMoved(c) \/ ReturnDisposable(c) \/ ReturnCheckpoint(c)

---------------------------------------------------------------------------
(* Properties. *)

(* A call that raised, ran out of time or was cancelled leaves nothing in   *)
(* any sandbox, however calls overlap.                                      *)
FailuresLeaveNoTrace ==
  \A k \in States : images[k] # Gone => server[images[k]] \subseteq returned

(* A sandbox that one caller at a time uses holds exactly what its callers  *)
(* were told: the commands and writes that returned since it was made or    *)
(* rolled back, and what the checkpoint had saved; a checkpoint is restored *)
(* as it was taken, whatever ran in it since.                               *)
SerialUseIsExact ==
  \A k \in serial : images[k] # Gone => server[images[k]] = told[k]

=============================================================================
