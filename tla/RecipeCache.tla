---------------------------- MODULE RecipeCache ----------------------------
(***************************************************************************)
(* The local checkout of the recipe repository and the lock that every     *)
(* "pbox recipe" command and every completion takes on it                  *)
(* (crates/pbox-cli/src/recipes.rs).  An application keeps the lock while  *)
(* Ansible reads the checkout; what it does to the box is RecipeApply's.   *)
(***************************************************************************)
EXTENDS Naturals

CONSTANTS
    RecipeCalls,  \* invocations on one machine
    MaxRevision,  \* bound on upstream revisions
    MaxKills,     \* bound on killed invocations
    NoCall        \* the lock file is absent

ASSUME RecipeCacheAssumption ==
    MaxRevision \in Nat \ {0} /\ MaxKills \in Nat /\ NoCall \notin RecipeCalls

VARIABLES
    tip,      \* the upstream revision
    cache,    \* the .git directory and the working tree
    autoSync, \* recipes.auto-sync
    lockfile, \* the call whose PID the lock file holds
    cacheCall,     \* cacheCall[c]: the invocation
    kills

cacheVars == <<tip, cache, autoSync, lockfile, cacheCall, kills>>

Revs == 0 .. MaxRevision  \* 0: none
Absent == [tree |-> "absent", head |-> 0, fetched |-> 0, marked |-> 0, fresh |-> FALSE]

\* No cache, or one of the first revision whose FETCH_HEAD has any age.
CacheInit ==
    /\ tip = 1
    /\ cache \in {Absent} \cup
           [tree : {"good"}, head : {1}, fetched : {1}, marked : {1}, fresh : BOOLEAN]
    /\ autoSync \in BOOLEAN
    /\ lockfile = NoCall
    /\ cacheCall \in [RecipeCalls ->
           [at : {"idle"}, kind : {"apply", "sync", "list"}, tries : {0}, robbed : {FALSE},
            rev : {0}, ran : {{}}]]
    /\ kills = 0

Stands(c, stages) == cacheCall[c].at \in stages
To(c, stage) == cacheCall' = [cacheCall EXCEPT ![c].at = stage]
\* RecipeCacheLock::drop removes the file, whoever wrote it.
Releases(c, outcome) == To(c, outcome) /\ lockfile' = NoCall
fixed == <<autoSync, kills>>

UpstreamMoves ==
    /\ tip < MaxRevision
    /\ tip' = tip + 1
    /\ UNCHANGED <<cache, lockfile, cacheCall, fixed>>

\* The TTL of a cache's FETCH_HEAD ends.
TtlEnds ==
    /\ cache.fresh
    /\ cache' = [cache EXCEPT !.fresh = FALSE]
    /\ UNCHANGED <<tip, lockfile, cacheCall, fixed>>

\* Nothing but the user repairs a checkout that a killed git left.
UserRemovesCache ==
    /\ cache.tree = "broken" /\ lockfile = NoCall
    /\ cache' = Absent
    /\ UNCHANGED <<tip, lockfile, cacheCall, fixed>>

\* Mutant: the file is opened whoever holds it.
LocksAnyway(c) ==
    /\ Stands(c, {"idle", "lock"})
    /\ lockfile' = c
    /\ To(c, "sync")
    /\ UNCHANGED <<tip, cache, fixed>>

\* create_new; a file whose process lives is held.
Locks(c) ==
    /\ Stands(c, {"idle", "lock"})
    /\ LET holder == lockfile IN
       \/ /\ holder = NoCall
          /\ lockfile' = c
          /\ cacheCall' = [cacheCall EXCEPT ![c].at = "sync", ![c].tries = 0]
       \/ /\ holder # NoCall  \* alive, or its PID is in use again
          /\ cacheCall' = [cacheCall EXCEPT ![c].at = "held"]
          /\ UNCHANGED lockfile
       \/ /\ holder # NoCall /\ Stands(holder, {"killed"})
          /\ To(c, "takeover")
          /\ UNCHANGED lockfile
    /\ UNCHANGED <<tip, cache, fixed>>

\* The file is renamed away, which may be another one by now; two attempts.
TakesOver(c) ==
    /\ Stands(c, {"takeover"})
    /\ LET victim == lockfile IN
       /\ lockfile' = NoCall
       /\ cacheCall' = [d \in RecipeCalls |->
              CASE d = c -> IF cacheCall[c].tries = 0
                            THEN [cacheCall[c] EXCEPT !.tries = 1, !.at = "lock"]
                            ELSE [cacheCall[c] EXCEPT !.at = "held"]
                [] d = victim /\ d # c /\ ~Stands(d, {"killed"}) -> [cacheCall[d] EXCEPT !.robbed = TRUE]
                [] OTHER -> cacheCall[d]]
    /\ UNCHANGED <<tip, cache, fixed>>

\* sync_if_stale, or only discover: without auto-sync, and for a completion.
\* A fetch needs an intact cache.
SyncBegins(c) ==
    /\ Stands(c, {"sync"})
    /\ \/ /\ cacheCall[c].kind # "sync"
          /\ \/ ~autoSync \/ cacheCall[c].kind = "list"
             \/ cache.fresh /\ cache.marked # 0
          /\ To(c, "discovers") /\ UNCHANGED cache
       \/ /\ cache.tree = "absent"
          /\ To(c, "clones")
          /\ cache' = [cache EXCEPT !.tree = "broken", !.fetched = tip]
       \/ /\ cache.tree = "good"
          /\ To(c, "checks_out")
          /\ cache' = [cache EXCEPT !.fetched = tip, !.fresh = TRUE]
    /\ UNCHANGED <<tip, lockfile, fixed>>

\* git checkout --force rewrites the working tree file by file.
CheckoutBegins(c) ==
    /\ Stands(c, {"checks_out"}) /\ cache.tree = "good"
    /\ To(c, "clones")
    /\ cache' = [cache EXCEPT !.tree = "broken"]
    /\ UNCHANGED <<tip, lockfile, fixed>>

CheckoutEnds(c) ==
    /\ Stands(c, {"clones"})
    /\ To(c, "marks")
    /\ cache' = [cache EXCEPT !.tree = "good", !.head = cache.fetched]
    /\ UNCHANGED <<tip, lockfile, fixed>>

\* pbox-revision.
Marks(c) ==
    /\ Stands(c, {"marks"})
    /\ To(c, "discovers")
    /\ cache' = [cache EXCEPT !.marked = cache.head]
    /\ UNCHANGED <<tip, lockfile, fixed>>

\* discover_unlocked_checked: an intact tree whose HEAD is the marked one.
Discovers(c) ==
    /\ Stands(c, {"discovers"})
    /\ cache.tree = "good" /\ cache.head = cache.marked /\ cache.head # 0
    /\ IF cacheCall[c].kind = "apply"
       THEN /\ cacheCall' = [cacheCall EXCEPT ![c].rev = cache.head, ![c].at = "applies"]
            /\ UNCHANGED lockfile
       ELSE Releases(c, "done")
    /\ UNCHANGED <<tip, cache, fixed>>

\* A git command (in the middle of a checkout too), an integrity check, an unknown recipe, a box that is not
\* there or not running.
Refused(c) ==
    /\ Stands(c, {"sync", "clones", "checks_out", "marks", "discovers", "applies"})
    /\ Releases(c, "refused")
    /\ UNCHANGED <<tip, cache, fixed>>
----------------------------------------------------------------------------
\* ansible-playbook reads the checkout, again and again.
AnsibleReads(c) ==
    /\ Stands(c, {"applies"})
    /\ cacheCall' = [cacheCall EXCEPT ![c].ran = @ \cup {IF cache.tree = "good" THEN cache.head ELSE 0}]
    /\ UNCHANGED <<tip, cache, lockfile, fixed>>

ApplyReturns(c) ==
    /\ Stands(c, {"applies"})
    /\ Releases(c, "done")
    /\ UNCHANGED <<tip, cache, fixed>>

\* SIGKILL or an interrupt: no Drop runs, the lock file stays.
CallKilled(c) ==
    /\ kills < MaxKills /\ ~Stands(c, {"idle", "done", "held", "refused", "killed"})
    /\ kills' = kills + 1
    /\ To(c, "killed")
    /\ UNCHANGED <<tip, cache, lockfile, autoSync>>

CacheNext ==
    \/ UpstreamMoves \/ TtlEnds \/ UserRemovesCache
    \/ \E c \in RecipeCalls :
          \/ Locks(c) \/ TakesOver(c) \/ SyncBegins(c) \/ CheckoutBegins(c) \/ CheckoutEnds(c)
          \/ Marks(c) \/ Discovers(c) \/ Refused(c) \/ AnsibleReads(c) \/ ApplyReturns(c)
          \/ CallKilled(c)

CacheSpec == CacheInit /\ [][CacheNext]_cacheVars
----------------------------------------------------------------------------
CacheTypeOK ==
    /\ tip \in Revs /\ kills \in 0 .. MaxKills
    /\ cache \in [tree : {"absent", "good", "broken"}, head : Revs, fetched : Revs,
                  marked : Revs, fresh : BOOLEAN]
    /\ lockfile \in RecipeCalls \cup {NoCall}
    /\ \A c \in RecipeCalls :
          Stands(c, {"idle", "lock", "takeover", "sync", "clones", "checks_out", "marks",
                     "discovers", "applies", "done", "held", "refused", "killed"})

\* The revision an application records is the one Ansible read, from a whole
\* checkout, whatever other commands and killed ones do to the cache; except
\* where a command that had judged an older lock file stale renamed a live one.
CheckoutApplied ==
    \A c \in RecipeCalls :
        cacheCall[c].ran \subseteq {cacheCall[c].rev} \/ \E d \in RecipeCalls : cacheCall[d].robbed
=============================================================================
