------------------------------- MODULE Signer -------------------------------
(***************************************************************************)
(* The local signer of a listener (websocket_signer.go).  It signs with    *)
(* native code until a handshake was refused; from then on, with a         *)
(* JavaScript runtime (jsScript/jsScript.go) that belongs to one profile:  *)
(* the session (user agent and cookie) and the browser fingerprint.  The   *)
(* runtime is made without the lock, and replaced whenever the profile     *)
(* changes.                                                                *)
(*                                                                         *)
(* Prepare, UpdateBrowserFingerprint and ActivateFallback exclude one      *)
(* another by fallbackMu, held from beginning to end; Close and Sign only  *)
(* take mu, for a section that is one step here.                           *)
(***************************************************************************)
EXTENDS FiniteSets

CONSTANTS
    Goroutine,          \* who calls the signer
    Session, Browser,   \* profiles
    Runtime,            \* the runtimes that may exist at once
    None                \* the empty profile, and nobody

VARIABLES
    signer,      \* userAgent and cookie (session), profile (browser), runtime (a set of at most
                 \* one), useFallback, closed
    fallbackMu,  \* the goroutine that holds it, or None
    at,          \* where each goroutine is
    local,       \* its variables: the profile it works for and a runtime only it knows
    live,        \* the runtimes that are neither unmade nor closed
    madeFor      \* the profile each was made for

vars == <<signer, fallbackMu, at, local, live, madeFor>>

Init ==
    /\ signer = [session |-> None, browser |-> None, runtime |-> {},
                 fallback |-> FALSE, closed |-> FALSE]
    /\ fallbackMu = None
    /\ at = [g \in Goroutine |-> "idle"]
    /\ local = [g \in Goroutine |-> [session |-> None, browser |-> None, runtime |-> {}]]
    /\ live = {} /\ madeFor = [r \in Runtime |-> [session |-> None, browser |-> None]]

Go(g, l) == at' = [at EXCEPT ![g] = l]
Back(g) == Go(g, "unlock") /\ UNCHANGED local

\* One of the three operations begins, with what it was given.
Call(g, op) ==
    /\ at[g] = "idle" /\ fallbackMu = None /\ fallbackMu' = g
    /\ Go(g, op)
    /\ \E s \in Session, b \in Browser :
          local' = [local EXCEPT ![g] = [session |-> s, browser |-> b, runtime |-> {}]]
    /\ UNCHANGED <<signer, live, madeFor>>

\* Prepare: nothing, if this session is prepared already; else it is bound,
\* and the runtime of the one before is closed and replaced if the fallback
\* is in use.
Matches(s) ==
    \E r \in signer.runtime :
        /\ madeFor[r].session = s
        /\ signer.browser = None \/ madeFor[r].browser = signer.browser
Prepare(g) ==
    LET s == local[g].session
        ready == signer.session = s /\ (signer.fallback => Matches(s))
    IN  /\ at[g] = "prepare"
        /\ \/ (signer.closed \/ ready) /\ Back(g) /\ UNCHANGED signer
           \/ /\ ~signer.closed /\ ~ready
              /\ signer' = [signer EXCEPT !.session = s, !.runtime = {}]
              /\ local' = [local EXCEPT ![g].runtime = signer.runtime]
              /\ Go(g, IF signer.fallback THEN "replace" ELSE "discard")
        /\ UNCHANGED <<fallbackMu, live, madeFor>>

\* The old runtime is closed before a new one is made.
Replace(g) ==
    /\ at[g] = "replace" /\ live' = live \ local[g].runtime
    /\ local' = [local EXCEPT ![g].runtime = {}] /\ Go(g, "profile")
    /\ UNCHANGED <<signer, fallbackMu, madeFor>>
ReadProfile(g) ==
    /\ at[g] = "profile" /\ local' = [local EXCEPT ![g].browser = signer.browser]
    /\ Go(g, "create")
    /\ UNCHANGED <<signer, fallbackMu, live, madeFor>>

\* UpdateBrowserFingerprint drops the runtime of another fingerprint.
UpdateBrowser(g) ==
    LET b == local[g].browser
    IN  /\ at[g] = "update"
        /\ \/ (signer.closed \/ signer.browser = b) /\ Back(g) /\ UNCHANGED signer
           \/ /\ ~signer.closed /\ signer.browser # b
              /\ signer' = [signer EXCEPT !.browser = b, !.runtime = {}]
              /\ local' = [local EXCEPT ![g].runtime = signer.runtime]
              /\ Go(g, "discard")
        /\ UNCHANGED <<fallbackMu, live, madeFor>>

\* ActivateFallback: unless it is active, a runtime for the current profile.
Activate(g) ==
    /\ at[g] = "activate"
    /\ \/ /\ signer.closed \/ (signer.fallback /\ signer.runtime # {})
          /\ Back(g)
       \/ /\ ~signer.closed /\ (signer.fallback => signer.runtime = {})
          /\ local' = [local EXCEPT ![g] = [session |-> signer.session, browser |-> signer.browser,
                                            runtime |-> {}]]
          /\ Go(g, "create")
    /\ UNCHANGED <<signer, fallbackMu, live, madeFor>>

\* prepareFallbackWithProfile: a runtime is made, for a random fingerprint
\* if there is none, or cannot be made; and put in place unless the signer
\* was closed, or bound to another profile, meanwhile.
Create(g) ==
    /\ at[g] = "create"
    /\ \/ Back(g) /\ UNCHANGED <<live, madeFor>>
       \/ \E r \in Runtime \ live :
             /\ live' = live \cup {r}
             /\ madeFor' = [madeFor EXCEPT ![r] =
                  [session |-> local[g].session,
                   browser |-> IF local[g].browser = None THEN "random" ELSE local[g].browser]]
             /\ local' = [local EXCEPT ![g].runtime = {r}]
             /\ Go(g, "install")
    /\ UNCHANGED <<signer, fallbackMu>>
InstallUnchecked(g) ==
    LET fits == /\ signer.session = local[g].session
                /\ \A r \in local[g].runtime :
                      signer.browser = None \/ signer.browser = madeFor[r].browser
    IN  /\ at[g] = "install" /\ Go(g, "discard")
        /\ \/ ~signer.closed /\ ~fits /\ UNCHANGED <<signer, local>>
           \/ /\ signer.closed \/ fits
              /\ signer' = [signer EXCEPT !.runtime = local[g].runtime, !.fallback = TRUE]
              /\ local' = [local EXCEPT ![g].runtime = signer.runtime]
        /\ UNCHANGED <<fallbackMu, live, madeFor>>
Install(g) ==
    LET fits == /\ signer.session = local[g].session
                /\ \A r \in local[g].runtime :
                      signer.browser = None \/ signer.browser = madeFor[r].browser
    IN  /\ at[g] = "install" /\ Go(g, "discard")
        /\ \/ (signer.closed \/ ~fits) /\ UNCHANGED <<signer, local>>
           \/ /\ ~signer.closed /\ fits
              /\ signer' = [signer EXCEPT !.runtime = local[g].runtime, !.fallback = TRUE]
              /\ local' = [local EXCEPT ![g].runtime = signer.runtime]
        /\ UNCHANGED <<fallbackMu, live, madeFor>>

\* The runtime that is out of use is closed, after the sections of mu.
Discard(g) ==
    /\ at[g] \in {"discard", "closing"} /\ live' = live \ local[g].runtime
    /\ local' = [local EXCEPT ![g].runtime = {}]
    /\ Go(g, IF at[g] = "discard" THEN "unlock" ELSE "idle")
    /\ UNCHANGED <<signer, fallbackMu, madeFor>>
Unlock(g) ==
    /\ at[g] = "unlock" /\ fallbackMu' = None /\ Go(g, "idle")
    /\ UNCHANGED <<signer, local, live, madeFor>>

\* Close, at any time, by whoever does nothing else.
Close(g) ==
    /\ at[g] = "idle" /\ ~signer.closed
    /\ signer' = [signer EXCEPT !.closed = TRUE, !.runtime = {},
                                !.session = None, !.browser = None]
    /\ local' = [local EXCEPT ![g].runtime = signer.runtime]
    /\ Go(g, "closing")
    /\ UNCHANGED <<fallbackMu, live, madeFor>>

Next == \E g \in Goroutine :
    \/ \E op \in {"prepare", "update", "activate"} : Call(g, op)
    \/ Prepare(g) \/ Replace(g) \/ ReadProfile(g) \/ UpdateBrowser(g) \/ Activate(g)
    \/ Create(g) \/ Install(g) \/ Discard(g) \/ Unlock(g) \/ Close(g)

Spec == Init /\ [][Next]_vars
-----------------------------------------------------------------------------
Profile == [session : Session \cup {None}, browser : Browser \cup {None, "random"}]
TypeOK ==
    /\ signer \in [session : Session \cup {None}, browser : Browser \cup {None},
                   runtime : SUBSET Runtime, fallback : BOOLEAN, closed : BOOLEAN]
    /\ fallbackMu \in Goroutine \cup {None}
    /\ at \in [Goroutine -> {"idle", "prepare", "replace", "profile", "update", "activate",
                             "create", "install", "discard", "unlock", "closing"}]
    /\ local \in [Goroutine -> [session : Session \cup {None}, browser : Browser \cup {None},
                                runtime : SUBSET Runtime]]
    /\ live \subseteq Runtime /\ madeFor \in [Runtime -> Profile]

\* Every runtime that was made and not closed is the one in place or known to
\* exactly one goroutine, which will close it or put it in place: none is
\* lost, however Close, a change of profile and a failed handshake meet.
RuntimesAccounted ==
    /\ live = signer.runtime \cup UNION {local[g].runtime : g \in Goroutine}
    /\ \A g \in Goroutine : local[g].runtime # {} =>
          /\ at[g] \in {"replace", "install", "discard", "closing"}
          /\ local[g].runtime \cap signer.runtime = {}
    /\ \A g, h \in Goroutine : g # h => local[g].runtime \cap local[h].runtime = {}

\* The runtime that signs was made for the profile that is bound, and a
\* closed signer has none: no signature carries another session's identity.
RuntimeFits ==
    \A r \in signer.runtime :
        /\ ~signer.closed /\ signer.fallback
        /\ madeFor[r].session = signer.session
        /\ signer.browser \in {None, madeFor[r].browser}

\* The strengthening that makes these inductive: a runtime that is about to
\* be put in place is one for the session it is checked against.
InstallsOwn ==
    \A g \in Goroutine : at[g] = "install" =>
        \A r \in local[g].runtime : madeFor[r].session = local[g].session

SignerInv == TypeOK /\ RuntimesAccounted /\ RuntimeFits /\ InstallsOwn
=============================================================================
