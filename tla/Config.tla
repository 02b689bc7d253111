------------------------------- MODULE Config -------------------------------
(***************************************************************************)
(* Config: a ConfigManager over layered sources, one of them a JSON file    *)
(* that set() values are saved to, through restarts of the process.        *)
(***************************************************************************)
EXTENDS Integers, Sequences

CONSTANTS Settings, Values,
          MaxSources  \* bound: sources of a process

Absent == "absent"  \* None: no source supplies the key
File == "json"      \* the label of the writable JSON file
Runtime == "runtime:set()"
Nothing == [k \in Settings |-> Absent]
Contents == [Settings -> Values \cup {Absent}]

ASSUME ValuesAssumption == Absent \notin Values

VARIABLES
    file,     \* what the JSON file holds, per key
    broken,   \* it was truncated by a save that did not finish
    sources,  \* _sources: the label and the contents of each, File's are on disk
    cache, labels, loaded, dirty,
    wanted,   \* the last value set() to each key, unless a save lost it since
    saved     \* what the file should hold, since a save last lost what it held

configVars == <<file, broken, sources, cache, labels, loaded, dirty, wanted, saved>>

Starts ==
    /\ sources' = <<[label |-> File, data |-> Nothing]>>
    /\ cache' = Nothing /\ labels' = Nothing /\ dirty' = Nothing /\ wanted' = Nothing
    /\ loaded' = FALSE

ConfigInit ==
    /\ file \in [Settings -> Values \cup {Absent}] /\ broken = FALSE /\ saved = file
    /\ sources = <<[label |-> File, data |-> Nothing]>>
    /\ cache = Nothing /\ labels = Nothing /\ dirty = Nothing /\ wanted = Nothing
    /\ loaded = FALSE

\* A file that is not JSON reads as empty, a source that raises is skipped.
FileContents == IF broken THEN Nothing ELSE file
Read(source) == IF source.label = File THEN FileContents ELSE source.data

\* The sources that supply k, by their place.
Suppliers(k) == {i \in DOMAIN sources : Read(sources[i])[k] # Absent}

Winner_First(k) == CHOOSE i \in Suppliers(k) : \A j \in Suppliers(k) : i <= j

\* The last one to supply k overrides the others.
Winner(k) == CHOOSE i \in Suppliers(k) : \A j \in Suppliers(k) : i >= j

\* _load(), which every operation on the manager begins with.
Cache == IF loaded THEN cache
         ELSE [k \in Settings |-> IF Suppliers(k) = {} THEN Absent ELSE Read(sources[Winner(k)])[k]]
Labels == IF loaded THEN labels
          ELSE [k \in Settings |-> IF Suppliers(k) = {} THEN Absent ELSE sources[Winner(k)].label]

AddSource(label, data) ==
    /\ Len(sources) < MaxSources
    /\ sources' = Append(sources, [label |-> label, data |-> data])
    /\ loaded' = FALSE
    /\ UNCHANGED <<file, broken, cache, labels, dirty, wanted, saved>>

\* get(), get_all(), sources().
Get ==
    /\ ~loaded /\ loaded' = TRUE /\ cache' = Cache /\ labels' = Labels
    /\ UNCHANGED <<file, broken, sources, dirty, wanted, saved>>

Set(k, v) ==
    /\ loaded' = TRUE
    /\ cache' = [Cache EXCEPT ![k] = v]
    /\ labels' = [Labels EXCEPT ![k] = Runtime]
    /\ dirty' = [dirty EXCEPT ![k] = v]
    /\ wanted' = [wanted EXCEPT ![k] = v]
    /\ UNCHANGED <<file, broken, sources, saved>>

Written_Overwrites == dirty

\* What save() writes: the keys set since the last one over what is on disk.
Written == [k \in Settings |-> IF dirty[k] # Absent THEN dirty[k] ELSE FileContents[k]]

Save ==
    /\ dirty # Nothing
    /\ file' = Written /\ broken' = FALSE /\ dirty' = Nothing
    /\ saved' = [k \in Settings |-> IF dirty[k] # Absent THEN dirty[k] ELSE IF broken THEN Absent ELSE saved[k]]
    /\ UNCHANGED <<sources, cache, labels, loaded, wanted>>

\* The file cannot be read, but written: what it holds is lost.
SaveUnread ==
    /\ dirty # Nothing
    /\ file' = dirty /\ saved' = dirty /\ wanted' = dirty
    /\ broken' = FALSE /\ dirty' = Nothing
    /\ UNCHANGED <<sources, cache, labels, loaded>>

\* The file was truncated by open() when the dump raised or the disk filled.  A
\* save that cannot open the file changes nothing.
SaveFails ==
    /\ dirty # Nothing /\ broken' = TRUE
    /\ wanted' = dirty
    /\ UNCHANGED <<file, sources, cache, labels, loaded, dirty, saved>>

\* A crash, in a save() or outside it, or an exit.
Restart ==
    /\ Starts
    /\ broken' \in IF dirty = Nothing THEN {broken} ELSE {broken, TRUE}
    /\ UNCHANGED <<file, saved>>

ConfigNext ==
    \/ \E label \in {"env", "dict"}, data \in Contents : AddSource(label, data)
    \/ Get \/ Save \/ SaveUnread \/ SaveFails \/ Restart
    \/ \E k \in Settings, v \in Values : Set(k, v)

ConfigSpec == ConfigInit /\ [][ConfigNext]_configVars
----------------------------------------------------------------------------
\* Saves and restarts lose no key of a file that every save could read and no save has
\* truncated, whichever keys this process knows, and a value set() is saved or still there for the
\* next save().
SetIsSaved ==
    /\ ~broken => file = saved
    /\ \A k \in Settings : wanted[k] # Absent =>
            dirty[k] = wanted[k] \/ (dirty[k] = Absent /\ saved[k] = wanted[k])

\* get() and sources() agree on every key: the value is the one that the source
\* named for it supplied, no source after it supplies the key, and a key set()
\* is reported as such.
SourceIsWinner ==
    loaded => \A k \in Settings :
        \/ labels[k] = Absent /\ cache[k] = Absent /\ \A i \in DOMAIN sources : sources[i].data[k] = Absent
        \/ labels[k] = Runtime /\ wanted[k] \in {cache[k], Absent}
        \/ \E i \in DOMAIN sources :
             /\ labels[k] = sources[i].label
             /\ sources[i].label = File \/ cache[k] = sources[i].data[k]
             /\ \A j \in i+1..Len(sources) : sources[j].data[k] = Absent

\* "Merges onto the file's current on-disk contents rather than overwriting it, so this
\* file only ever accumulates explicit overrides": a save that is not cut short keeps
\* every key of a file that is whole.  One that cannot read the file writes its own
\* keys only.
OnlyAccumulates == [][~broken /\ ~broken' => \A k \in Settings : file[k] # Absent => file'[k] # Absent]_<<file, broken>>

\* Values keep their source and survive the process.
ConfigKept == SetIsSaved /\ SourceIsWinner
=============================================================================
