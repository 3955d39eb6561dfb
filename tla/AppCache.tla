------------------------------ MODULE AppCache ------------------------------
(***************************************************************************)
(* The applications of a MultiMapProxy (multiapp.py) and the LRU           *)
(* dictionary that keeps them (util/lru.py), used by the threads of one    *)
(* server.  The dictionary has no lock of its own: only the creation of an *)
(* application is inside _app_init_lock, while every thread may get one    *)
(* and reorder last_used at any time.                                      *)
(*                                                                         *)
(* One step is one operation on a dict or deque, which CPython does not    *)
(* interrupt.  A configuration file is known by its mtime, a counter of    *)
(* its changes, and so is the content that an application was made from.   *)
(***************************************************************************)
EXTENDS Naturals, Sequences, SequencesExt, FiniteSets

CONSTANTS
  Threads,
  Names,       \* names of the applications
  Size,        \* app_cache_size
  MaxChanges   \* bound on the changes of each configuration file

ASSUME SizeAssumption ==
  Size \in Nat \ {0} /\ MaxChanges \in Nat /\ IsFiniteSet(Threads)

VARIABLES
  mtime,       \* mtime[n]: of the configuration file
  values,      \* LRU.values: applications, or NoApp
  lastUsed,    \* LRU.last_used, most recent first
  pc,          \* pc[t]: step of the request
  name,        \* name[t]: the application it asks for
  pass,        \* pass[t]: which access to self.apps in proj_app; from the
               \* second on t has _app_init_lock
  app,         \* app[t]: what the last access returned, or was created
  since,       \* since[t]: history, mtime when the request arrived
  evicted      \* history: an application was dropped for want of space

vars == <<mtime, values, lastUsed, pc, name, pass, app, since, evicted>>

\* An application: the file's content it has, and the timestamp beside it.
Apps == [content : 0 .. MaxChanges, stamp : 0 .. MaxChanges]
NoApp == [content |-> 0, stamp |-> MaxChanges + 1]

Getting == {"get", "item", "remove", "front"}
Setting == {"setremove", "setfront", "setvalue", "evict"}
States == Getting \cup Setting \cup
          {"idle", "check", "lock", "read", "stamp", "done", "error", "invalid"}
Ended == {"idle", "done", "error", "invalid"}
Owns(t) == pass[t] > 1

Init ==
  /\ mtime = [n \in Names |-> 0]
  /\ values = [n \in Names |-> NoApp]
  /\ lastUsed = <<>>
  /\ pc = [t \in Threads |-> "idle"]
  /\ name \in [Threads -> Names]
  /\ pass = [t \in Threads |-> 1]
  /\ app = [t \in Threads |-> NoApp]
  /\ since = [t \in Threads |-> 0]
  /\ evicted = FALSE

Goto(t, state) == pc' = [pc EXCEPT ![t] = state]
SetApp(t, a) == app' = [app EXCEPT ![t] = a]

\* proj_app returns or raises; _app_init_lock is released.
End(t, state) == Goto(t, state) /\ pass' = [pass EXCEPT ![t] = 1]

\* A request for the application n.
Arrive(t, n) ==
  /\ pc[t] \in Ended
  /\ name' = [name EXCEPT ![t] = n]
  /\ since' = [since EXCEPT ![t] = mtime[n]]
  /\ SetApp(t, NoApp)
  /\ Goto(t, "get")
  /\ UNCHANGED <<mtime, values, lastUsed, pass, evicted>>

-----------------------------------------------------------------------------
(* LRU.get and LRU.__getitem__ *)

\* key not in self.values: get returns (None, None).  needs_reload is true
\* for that, so what follows is the lock, or the creation of the application.
Get(t) ==
  /\ pc[t] = "get"
  /\ IF values[name[t]] = NoApp
       THEN SetApp(t, NoApp) /\ Goto(t, IF Owns(t) THEN "read" ELSE "lock")
       ELSE Goto(t, "item") /\ UNCHANGED app
  /\ UNCHANGED <<mtime, values, lastUsed, name, pass, since, evicted>>

\* self.values[key]: a KeyError if the application was evicted since.
Item(t) ==
  /\ pc[t] = "item"
  /\ IF values[name[t]] = NoApp
       THEN End(t, "error") /\ UNCHANGED app
       ELSE SetApp(t, values[name[t]]) /\ Goto(t, "remove") /\ UNCHANGED pass
  /\ UNCHANGED <<mtime, values, lastUsed, name, since, evicted>>

\* last_used.remove(key): the most recent entry, or the ValueError that is ignored.
RemoveName(n) == lastUsed' = RemoveFirst(lastUsed, n)

\* Mutant: an access adds the key without removing it.
AddOnly(t) ==
  /\ pc[t] = "remove"
  /\ Goto(t, "front")
  /\ UNCHANGED <<mtime, values, lastUsed, name, pass, app, since, evicted>>

RemoveUsed(t) ==
  /\ pc[t] = "remove"
  /\ RemoveName(name[t])
  /\ Goto(t, "front")
  /\ UNCHANGED <<mtime, values, name, pass, app, since, evicted>>

\* last_used.appendleft(key).  The third access of proj_app was the last.
AppendLeft(t) ==
  /\ pc[t] = "front"
  /\ lastUsed' = <<name[t]>> \o lastUsed
  /\ IF pass[t] = 3 THEN End(t, "done") ELSE Goto(t, "check") /\ UNCHANGED pass
  /\ UNCHANGED <<mtime, values, name, app, since, evicted>>

-----------------------------------------------------------------------------
(* proj_app and create_app *)

\* Mutant: a change in the tick of the timestamp counts as none.
NeedsReloadOnce(t) == mtime[name[t]] > app[t].stamp + 1

NeedsReload(t) == mtime[name[t]] > app[t].stamp

\* needs_reload looks at the file's mtime, without the lock or with it.
Check(t) ==
  /\ pc[t] = "check"
  /\ CASE NeedsReload(t) /\ ~Owns(t) -> Goto(t, "lock") /\ UNCHANGED pass
       [] NeedsReload(t) /\ Owns(t) -> Goto(t, "read") /\ UNCHANGED pass
       [] ~NeedsReload(t) /\ ~Owns(t) -> End(t, "done")
       [] OTHER -> Goto(t, "item") /\ pass' = [pass EXCEPT ![t] = 3]
  /\ UNCHANGED <<mtime, values, lastUsed, name, app, since, evicted>>

\* Mutant: no second look after the lock.
LockAndCreate(t) ==
  /\ pc[t] = "lock" /\ \A u \in Threads : ~Owns(u)
  /\ pass' = [pass EXCEPT ![t] = 2]
  /\ Goto(t, "read")
  /\ UNCHANGED <<mtime, values, lastUsed, name, app, since, evicted>>

\* with self._app_init_lock, and the second access.
Lock(t) ==
  /\ pc[t] = "lock" /\ \A u \in Threads : ~Owns(u)
  /\ pass' = [pass EXCEPT ![t] = 2]
  /\ Goto(t, "get")
  /\ UNCHANGED <<mtime, values, lastUsed, name, app, since, evicted>>

\* load_configuration_file reads the file first ...
Read(t) ==
  /\ pc[t] = "read"
  /\ SetApp(t, [NoApp EXCEPT !.content = mtime[name[t]]])
  /\ Goto(t, "stamp")
  /\ UNCHANGED <<mtime, values, lastUsed, name, pass, since, evicted>>

\* ... and takes its mtime afterwards.
Stamp(t) ==
  /\ pc[t] = "stamp"
  /\ SetApp(t, [app[t] EXCEPT !.stamp = mtime[name[t]]])
  /\ Goto(t, "setremove")
  /\ UNCHANGED <<mtime, values, lastUsed, name, pass, since, evicted>>

\* The configuration has errors: create_app raises.
Invalid(t) ==
  /\ pc[t] = "stamp"
  /\ End(t, "invalid")
  /\ UNCHANGED <<mtime, values, lastUsed, name, app, since, evicted>>

-----------------------------------------------------------------------------
(* LRU.__setitem__, inside the lock *)

\* Mutant: an outdated application is deleted before the new one is set.
SetDelete(t) ==
  /\ pc[t] = "setremove"
  /\ values' = [values EXCEPT ![name[t]] = NoApp]
  /\ RemoveName(name[t])
  /\ Goto(t, "setfront")
  /\ UNCHANGED <<mtime, name, pass, app, since, evicted>>

SetRemove(t) ==
  /\ pc[t] = "setremove"
  /\ IF values[name[t]] # NoApp THEN RemoveName(name[t]) ELSE UNCHANGED lastUsed
  /\ Goto(t, "setfront")
  /\ UNCHANGED <<mtime, values, name, pass, app, since, evicted>>

SetFront(t) ==
  /\ pc[t] = "setfront"
  /\ lastUsed' = <<name[t]>> \o lastUsed
  /\ Goto(t, "setvalue")
  /\ UNCHANGED <<mtime, values, name, pass, app, since, evicted>>

SetValue(t) ==
  /\ pc[t] = "setvalue"
  /\ values' = [values EXCEPT ![name[t]] = app[t]]
  /\ Goto(t, "evict")
  /\ UNCHANGED <<mtime, lastUsed, name, pass, app, since, evicted>>

Kept == {n \in Names : values[n] # NoApp}

\* while len(values) > size: del values[last_used.pop()].  That is an error
\* if threads took everything out of last_used for the moment, or if a name is
\* in last_used and not, or no longer, in values.
Evict(t) ==
  /\ pc[t] = "evict" /\ Cardinality(Kept) > Size
  /\ evicted' = TRUE
  /\ IF lastUsed = <<>>
       THEN End(t, "error") /\ UNCHANGED <<values, lastUsed>>
       ELSE /\ lastUsed' = Front(lastUsed)
            /\ IF Last(lastUsed) \in Kept
                 THEN /\ values' = [values EXCEPT ![Last(lastUsed)] = NoApp]
                      /\ UNCHANGED <<pc, pass>>
                 ELSE End(t, "error") /\ UNCHANGED values
  /\ UNCHANGED <<mtime, name, app, since>>

Stored(t) ==
  /\ pc[t] = "evict" /\ Cardinality(Kept) <= Size
  /\ End(t, "done")
  /\ UNCHANGED <<mtime, values, lastUsed, name, app, since, evicted>>

-----------------------------------------------------------------------------
\* Someone edits a configuration file.
Edit(n) ==
  /\ mtime[n] < MaxChanges
  /\ mtime' = [mtime EXCEPT ![n] = @ + 1]
  /\ UNCHANGED <<values, lastUsed, pc, name, pass, app, since, evicted>>

Access(t) == Get(t) \/ Item(t) \/ RemoveUsed(t) \/ AppendLeft(t)
Create(t) == Read(t) \/ Stamp(t) \/ Invalid(t)
Set(t) == SetRemove(t) \/ SetFront(t) \/ SetValue(t) \/ Evict(t) \/ Stored(t)
Step(t) == Access(t) \/ Check(t) \/ Lock(t) \/ Create(t) \/ Set(t)

Next ==
  \/ \E t \in Threads : Step(t) \/ \E n \in Names : Arrive(t, n)
  \/ \E n \in Names : Edit(n)

Spec == Init /\ [][Next]_vars

-----------------------------------------------------------------------------
(* Properties *)

Entries(n) == Cardinality({i \in DOMAIN lastUsed : lastUsed[i] = n})

\* Types.  last_used may name an application more than once, when threads
\* remove and add it in turns, but it does not grow with the requests.
TypeOK ==
  /\ mtime \in [Names -> 0 .. MaxChanges]
  /\ values \in [Names -> Apps \cup {NoApp}]
  /\ lastUsed \in Seq(Names)
  /\ \A n \in Names : Entries(n) <= Cardinality(Threads)
  /\ pc \in [Threads -> States] /\ name \in [Threads -> Names]
  /\ pass \in [Threads -> 1 .. 3]
  /\ app \in [Threads -> [content : 0 .. MaxChanges, stamp : 0 .. MaxChanges + 1]]
  /\ since \in [Threads -> 0 .. MaxChanges]
  /\ evicted \in BOOLEAN

\* deployment.rst: "The configuration will be reloaded if the file changes."
\* A request is answered by an application that knows each change made before
\* the request arrived.  The only exception is a change between reading the
\* file and taking its mtime, which hides it until the next change.
CurrentUnlessEditedWhileRead ==
  \A t \in Threads : pc[t] = "done" => app[t].content >= since[t] \/ app[t].content < app[t].stamp

\* However many threads find it missing or outdated, an application is only
\* created while the dictionary has none that is up to date.
CreatedOnce ==
  \A t \in Threads : pc[t] = "read" =>
    values[name[t]] = NoApp \/ values[name[t]].stamp < mtime[name[t]]

\* A KeyError or IndexError of the dictionary reaches a request only when there
\* are more applications than app_cache_size.
NoErrorWithoutEviction == \A t \in Threads : pc[t] = "error" => evicted
=============================================================================
