------------------------------ MODULE Layouts ------------------------------
(***************************************************************************)
(* One surface: what extensions contribute to it, the RegionHost built     *)
(* from it, and the PerspectiveStore that keeps the user's layout from one *)
(* run of the application, and one version of the layout, to the next.     *)
(***************************************************************************)
EXTENDS Integers, Sequences, SequencesExt, FiniteSets

CONSTANTS
    Panels,   \* [id, place, title, order]: what may be contributed
    Region,   \* [place -> "central", "dock", "modal" or "toolbar"]: place_regions
    MaxHosts, \* bound: hosts built for the surface in one run
    MaxLaunches   \* bound: runs of the application

ASSUME HostsAssumption == MaxHosts \in Nat

VARIABLES
    run,        \* how often the application was started
    version,    \* layout_version of this build
    contributed,\* ContributionRegistry._panels
    hosts,      \* [host -> its titles' places, by title]; "gone" before and after
    placing,    \* [host -> panels still to be placed]
    default,    \* [host -> _default_perspective]
    arranged,   \* hosts the user has arranged since they were restored
    registeredHost, \* the host in PerspectiveStore._hosts, or 0
    callbacks,  \* living hosts whose destroyed signal unregisters the surface
    disk,       \* the slice: NoEntry, "unreadable", or [version, state]
    kept,       \* what the user had at the last save, and its version
    restored,   \* hosts restore_state() has reached since it was saved
    handedOver    \* was a host unregistered, or another one built, in this run?

registry == <<registeredHost, callbacks>>
layoutsVars == <<run, version, contributed, hosts, placing, default, arranged, registry,
          disk, kept, restored, handedOver>>

Hosts == 1 .. MaxHosts
NoEntry == [version |-> 0, state |-> <<>>]
Unreadable == [version |-> -1, state |-> <<>>]
NoHost == <<>>
AsBuilt == "default"

Starting ==
    /\ contributed = {}
    /\ hosts = [h \in Hosts |-> NoHost] /\ placing = [h \in Hosts |-> <<>>]
    /\ default = [h \in Hosts |-> NoHost] /\ arranged = {}
    /\ registeredHost = 0 /\ callbacks = {}
    /\ restored = {} /\ handedOver = FALSE

LayoutsInit == run = 1 /\ version = 1 /\ Starting /\ disk = NoEntry /\ kept = NoEntry
----------------------------------------------------------------------------
\* contribute(), which raises for a place the surface does not accept and for
\* the same panel twice.
ContributePanel(p) ==
    /\ hosts = [h \in Hosts |-> NoHost] /\ p.place \in DOMAIN Region
    /\ p \notin contributed
    /\ contributed' = contributed \cup {p}
    /\ UNCHANGED <<run, version, hosts, placing, default, arranged, registry, disk, kept, restored, handedOver>>

\* panels(), in render order, whatever the order they came in.
InOrder == SetToSortSeq(contributed, LAMBDA p, q : p.order < q.order)

Alive == {h \in Hosts : hosts[h] # NoHost}

Build(h) ==
    /\ hosts[h] = NoHost /\ default[h] = NoHost /\ contributed # {}
    /\ \A g \in Hosts : g < h => default[g] # NoHost
    /\ hosts' = [hosts EXCEPT ![h] = [t \in {""} |-> AsBuilt]]
    /\ placing' = [placing EXCEPT ![h] = InOrder]
    /\ handedOver' = (h > 1)
    /\ UNCHANGED <<run, version, contributed, default, arranged, registry, disk, kept, restored>>

\* A title is the name a dock's place, or a dialog, is kept by.
Taken(h, p) == p.title \in DOMAIN hosts[h]

Places(h, p) ==
    IF Region[p.place] = "toolbar" \/ Taken(h, p) THEN hosts[h]
    ELSE [t \in DOMAIN hosts[h] \cup {p.title} |-> AsBuilt]

\* place_widget(): a toolbar holds no widgets, there is one central widget, and
\* a second dock or dialog of a title is refused: the panel is not placed.
Place(h) ==
    /\ placing[h] # <<>>
    /\ placing' = [placing EXCEPT ![h] = Tail(@)]
    /\ hosts' = [hosts EXCEPT ![h] = Places(h, Head(placing[h]))]
    /\ UNCHANGED <<run, version, contributed, default, arranged, registry, disk, kept, restored, handedOver>>

\* capture_default_perspective(), after the last panel was placed.
CaptureDefault(h) ==
    /\ hosts[h] # NoHost /\ placing[h] = <<>> /\ default[h] = NoHost
    /\ default' = [default EXCEPT ![h] = hosts[h]]
    /\ UNCHANGED <<run, version, contributed, hosts, placing, arranged, registry, disk, kept, restored, handedOver>>

HostUsable(h) == hosts[h] # NoHost /\ default[h] # NoHost

\* The user drags a dock, or puts it back; a dialog has no place to keep.
Arrange(h, t) ==
    /\ HostUsable(h) /\ t \in DOMAIN hosts[h] \ {""}
    /\ hosts' = [hosts EXCEPT ![h][t] = IF @ = AsBuilt THEN "moved" ELSE AsBuilt]
    /\ arranged' = arranged \cup {h}
    /\ UNCHANGED <<run, version, contributed, placing, default, registry, disk, kept, restored, handedOver>>

\* reset_perspective(), Window, Reset layout.
ResetLayout(h) ==
    /\ HostUsable(h)
    /\ hosts' = [hosts EXCEPT ![h] = default[h]]
    /\ arranged' = arranged \cup {h}
    /\ UNCHANGED <<run, version, contributed, placing, default, registry, disk, kept, restored, handedOver>>
----------------------------------------------------------------------------
\* register(), one host per surface.
RegisterHost(h) ==
    /\ HostUsable(h) /\ registeredHost = 0
    /\ registeredHost' = h /\ callbacks' = callbacks \cup {h}
    /\ UNCHANGED <<run, version, contributed, hosts, placing, default, arranged, disk, kept, restored, handedOver>>

Unregister ==
    /\ registeredHost # 0
    /\ registeredHost' = 0 /\ handedOver' = TRUE
    /\ UNCHANGED <<run, version, contributed, hosts, placing, default, arranged, callbacks, disk, kept, restored>>

\* The signal forgets the surface's host, which may be another one by now.
Destroyed(h) ==
    /\ HostUsable(h)
    /\ hosts' = [hosts EXCEPT ![h] = NoHost]
    /\ registeredHost' = IF h \in callbacks THEN 0 ELSE registeredHost
    /\ callbacks' = callbacks \ {h}
    /\ handedOver' = TRUE
    /\ UNCHANGED <<run, version, contributed, placing, default, arranged, disk, kept, restored>>

\* capture_state(), written as the whole slice.
Captured ==
    IF registeredHost = 0 THEN NoEntry ELSE [version |-> version, state |-> hosts[registeredHost]]

SaveLayout ==
    /\ registeredHost # 0 \/ callbacks # {}
    /\ disk' = Captured
    /\ kept' = IF Alive = {} \/ handedOver THEN disk'
               ELSE [version |-> version, state |-> hosts[CHOOSE h \in Alive : \A g \in Alive : g <= h]]
    /\ restored' = {}
    /\ UNCHANGED <<run, version, contributed, hosts, placing, default, arranged, registry, handedOver>>

Applies_AnyVersion(entry) == entry.version > 0

\* The version, then whether the entry is a string, base64, a blob of this host.
Applies(entry) == entry.version = version

\* restoreState(): a dock the blob does not name stays where it is.
Applied(h, blob) ==
    [t \in DOMAIN hosts[h] |-> IF t \in DOMAIN blob THEN blob[t] ELSE hosts[h][t]]

Restore ==
    /\ registeredHost # 0
    /\ IF disk = NoEntry THEN UNCHANGED hosts
       ELSE hosts' = [hosts EXCEPT ![registeredHost] =
                        IF Applies(disk) THEN Applied(registeredHost, disk.state)
                        ELSE default[registeredHost]]
    /\ arranged' = IF disk = NoEntry THEN arranged ELSE arranged \ {registeredHost}
    /\ restored' = restored \cup {registeredHost}
    /\ UNCHANGED <<run, version, contributed, placing, default, registry, disk, kept, handedOver>>

\* The file is edited by hand, or was cut short: the entry's fields are not what
\* they should be, or the entry is no mapping, which is skipped like none at all.
Corrupt ==
    /\ disk # NoEntry
    /\ disk' \in {Unreadable, NoEntry} /\ kept' = disk' /\ restored' = {}
    /\ UNCHANGED <<run, version, contributed, hosts, placing, default, arranged, registry, handedOver>>

\* The application ends, or crashes, and starts again, maybe as a newer build.
RestartApplication ==
    /\ run < MaxLaunches
    /\ run' = run + 1
    /\ version' \in {version, version + 1}
    /\ contributed' = {}
    /\ hosts' = [h \in Hosts |-> NoHost] /\ placing' = [h \in Hosts |-> <<>>]
    /\ default' = [h \in Hosts |-> NoHost] /\ arranged' = {}
    /\ registeredHost' = 0 /\ callbacks' = {}
    /\ restored' = {} /\ handedOver' = FALSE
    /\ UNCHANGED <<disk, kept>>

LayoutsNext ==
    \/ \E p \in Panels : ContributePanel(p)
    \/ \E h \in Hosts : \/ Build(h) \/ Place(h) \/ CaptureDefault(h) \/ ResetLayout(h)
                        \/ RegisterHost(h) \/ Destroyed(h)
                        \/ hosts[h] # NoHost /\ \E t \in DOMAIN hosts[h] : Arrange(h, t)
    \/ Unregister \/ SaveLayout \/ Restore \/ Corrupt \/ RestartApplication

LayoutsSpec == LayoutsInit /\ [][LayoutsNext]_layoutsVars
----------------------------------------------------------------------------
\* A host that was restored, and not touched since, has each panel where the
\* user had it when the layout was last saved, in this run or an earlier one,
\* if it was saved by this version of the layout; under another version, or from an
\* unreadable entry, all are where they were built: never half of a layout that
\* does not apply.  (A host that replaces another is left out: the old one's
\* destroyed signal unregisters it.)
LayoutsKept ==
    \A h \in restored \ arranged :
        (~handedOver /\ hosts[h] # NoHost /\ kept # NoEntry) =>
            IF kept.version = version
            THEN \A t \in DOMAIN hosts[h] \cap DOMAIN kept.state : hosts[h][t] = kept.state[t]
            ELSE hosts[h] = default[h]
=============================================================================
