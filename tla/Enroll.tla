--------------------------------- MODULE Enroll ---------------------------------
(***************************************************************************)
(* The board's identity: at its first start it registers itself with the   *)
(* credentials of its env file, and writes the id and the token it got     *)
(* into that same file, in place; later starts reuse them.  An answer may  *)
(* be lost on the way, the process may die between any two steps.          *)
(*                                                                         *)
(* Identity i is what the server issued at the i-th registration.  The     *)
(* name that comes with it decides nothing and is left out.                *)
(***************************************************************************)
EXTENDS Naturals

CONSTANTS
    MaxRegistered, \* bound of an instance: registrations
    MaxCrashes,    \* bound of an instance: deaths of the process
    Attempts       \* _ENROLL_ATTEMPTS

ASSUME EnrollAssumption ==
    /\ MaxRegistered \in Nat
    /\ MaxCrashes \in Nat
    /\ Attempts \in Nat \ {0}

VARIABLES
    pc,       \* down; enrolling: the answer is awaited; answered;
              \* writing: the file is truncated; up: main goes on
    tries,    \* candidates of this start that were taken already
    env,      \* the env file: are the credentials there, the id, the token
    me,       \* the identity this process has got from the server or the file
    issued,   \* the server: how many identities it has issued
    crashes,  \* history: deaths of the process
    hidden    \* history: registrations whose answer the file never got

enrollVars == <<pc, tries, env, me, issued, crashes, hidden>>

No  == 0                      \* the key is missing or empty
Cut == MaxRegistered + 1      \* a value that was cut short

Envs == [creds : BOOLEAN, id : No..Cut, token : No..Cut]

EnrollTypeOK ==
    /\ pc \in {"down", "enrolling", "answered", "writing", "up"}
    /\ tries \in 0..(Attempts - 1)
    /\ env \in Envs
    /\ me \in [id : No..Cut, token : No..Cut]
    /\ issued \in 0..MaxRegistered
    /\ crashes \in 0..MaxCrashes
    /\ hidden \in Nat

Nobody == [id |-> No, token |-> No]

EnrollInit ==
    /\ pc = "down"
    /\ tries = 0
    /\ env = [creds |-> TRUE, id |-> No, token |-> No]
    /\ me = Nobody
    /\ issued = 0
    /\ crashes = 0
    /\ hidden = 0

\* What a prefix of the file holds: the credentials come before the identity.
\* (A short name changes nothing, a short id comes without a token.)
Prefixes(new) ==
    {[creds |-> FALSE, id |-> No, token |-> No],
     [creds |-> TRUE,  id |-> No, token |-> No],
     [creds |-> TRUE,  id |-> new.id, token |-> No],
     [creds |-> TRUE,  id |-> new.id, token |-> Cut],
     [creds |-> TRUE,  id |-> new.id, token |-> new.token]}

Enrolled == env.id # No /\ env.token # No

\* The settings are read from the file, and there is an identity ...
Reuse ==
    /\ pc = "down"
    /\ Enrolled
    /\ me' = [id |-> env.id, token |-> env.token]
    /\ pc' = "up"
    /\ UNCHANGED <<tries, env, issued, crashes, hidden>>

\* ... or there are the credentials to ask for one; else EnrollError.
Ask ==
    /\ pc = "down"
    /\ ~Enrolled
    /\ env.creds
    /\ pc' = "enrolling"
    /\ UNCHANGED <<tries, env, me, issued, crashes, hidden>>

\* 201: the server has issued an identity, and its answer arrives ...
Registered ==
    /\ pc = "enrolling"
    /\ issued < MaxRegistered
    /\ issued' = issued + 1
    /\ me' = [id |-> issued + 1, token |-> issued + 1]
    /\ pc' = "answered"
    /\ tries' = 0
    /\ UNCHANGED <<env, crashes, hidden>>

\* ... or is lost: the exception ends the process.
AnswerLost ==
    /\ pc = "enrolling"
    /\ issued < MaxRegistered
    /\ issued' = issued + 1
    /\ hidden' = hidden + 1
    /\ pc' = "down"
    /\ tries' = 0
    /\ UNCHANGED <<env, me, crashes>>

\* 409: another candidate, if there are attempts left.
Conflict ==
    /\ pc = "enrolling"
    /\ IF tries + 1 < Attempts
       THEN tries' = tries + 1 /\ UNCHANGED pc
       ELSE tries' = 0 /\ pc' = "down"
    /\ UNCHANGED <<env, me, issued, crashes, hidden>>

\* Another status, or no connection: the exception ends the process.
Refused ==
    /\ pc = "enrolling"
    /\ pc' = "down"
    /\ tries' = 0
    /\ UNCHANGED <<env, me, issued, crashes, hidden>>

\* persist_identity: write_text truncates the file, which has been read ...
Truncate ==
    /\ pc = "answered"
    /\ pc' = "writing"
    /\ UNCHANGED <<tries, env, me, issued, crashes, hidden>>

\* Mutant: a key that is there already keeps its value.
MutantKeepsOldKey ==
    /\ pc = "writing"
    /\ env' = [env EXCEPT !.id = IF @ = No THEN me.id ELSE @,
                          !.token = IF @ = No THEN me.token ELSE @]
    /\ pc' = "up"
    /\ UNCHANGED <<tries, me, issued, crashes, hidden>>

\* ... and writes the old lines with the new identity in its place.
Persist ==
    /\ pc = "writing"
    /\ env' = [env EXCEPT !.id = me.id, !.token = me.token]
    /\ pc' = "up"
    /\ UNCHANGED <<tries, me, issued, crashes, hidden>>

\* The process dies, by a signal or with the board's power.  A file that was
\* being written keeps a prefix of what it should hold.
Die ==
    /\ pc # "down"
    /\ crashes < MaxCrashes
    /\ crashes' = crashes + 1
    /\ pc' = "down"
    /\ me' = Nobody
    /\ IF pc = "writing" THEN env' \in Prefixes(me) ELSE UNCHANGED env
    /\ hidden' = IF pc \in {"answered", "writing"} /\ env'.token # me.token
                 THEN hidden + 1 ELSE hidden
    /\ tries' = 0
    /\ UNCHANGED issued

EnrollStep ==
    \/ Reuse \/ Ask \/ Registered \/ AnswerLost \/ Conflict \/ Refused
    \/ Truncate \/ Persist

-----------------------------------------------------------------------------
\* One board is one drone: whatever dies and whatever is lost, the server
\* issues at most one identity more than were hidden from the file, ...
RegistersOnce == issued <= 1 + hidden

\* ... and the board connects with the token that was issued for its id, now
\* and after the next start; only a token that was cut short is another one.
OwnToken ==
    /\ pc = "up" => me.id # No /\ me.token \in {me.id, Cut}
    /\ env.token \in {No, Cut, env.id}

\* Both, for the run.
OneIdentity == RegistersOnce /\ OwnToken
==============================================================================
