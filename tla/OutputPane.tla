----------------------------- MODULE OutputPane -----------------------------
(***************************************************************************)
(* The output pane: a LogListModel for each channel, which keeps the       *)
(* newest lines, and a list that shows one of them, whose selection is by  *)
(* row while lines come and go.                                            *)
(***************************************************************************)
EXTENDS Integers, Sequences, SequencesExt

CONSTANTS Channels,   \* the channels, in the order they were added
          MaxEntries, \* MAX_ENTRIES
          MaxLines    \* bound: lines appended

ASSUME ChannelsAssumption == Channels # <<>> /\ Channels \in Seq(ToSet(Channels))
ASSUME EntriesAssumption == MaxEntries \in Nat \ {0}

VARIABLES
    buffer,  \* [channel -> _entries], lines by number
    channel,  \* the channel the combo box shows
    selected, \* rows that are selected
    clipboard,\* [row copied -> its line], the text being the lines from the top row down
    lastLine,     \* lines appended
    cleared,  \* [channel -> the last line appended when it was cleared]
    given,    \* [channel -> the lines appended to it]
    picked,   \* the lines the person selected
    meant     \* the lines the person meant to copy

outputHistory == <<lastLine, cleared, given, picked, meant>>
outputVars == <<buffer, channel, selected, clipboard, outputHistory>>

OutputInit ==
    /\ buffer = [c \in ToSet(Channels) |-> <<>>]
    /\ channel = Channels[1] /\ selected = {} /\ clipboard = [r \in {} |-> 0]
    /\ lastLine = 0 /\ cleared = [c \in ToSet(Channels) |-> 0]
    /\ given = [c \in ToSet(Channels) |-> {}] /\ picked = {} /\ meant = {}

Trimmed_Silently(c) == selected

\* beginRemoveRows() moves the selection of the list that shows the channel.
Trimmed(c) == IF c = channel THEN {r - 1 : r \in selected \ {1}} ELSE selected

Full(c) == Len(buffer[c]) >= MaxEntries

\* append(): the oldest line makes room.
AppendLine(c) ==
    /\ lastLine < MaxLines /\ lastLine' = lastLine + 1
    /\ buffer' = [buffer EXCEPT ![c] = Append(IF Full(c) THEN Tail(@) ELSE @, lastLine')]
    /\ selected' = IF Full(c) THEN Trimmed(c) ELSE selected
    /\ given' = [given EXCEPT ![c] = @ \cup {lastLine'}]
    /\ picked' = IF c = channel /\ Full(c) THEN picked \ {Head(buffer[c])} ELSE picked
    /\ UNCHANGED <<channel, clipboard, cleared, meant>>

\* clear(), from the pane or from QML: a reset, which drops the selection.
Clear(c) ==
    /\ buffer' = [buffer EXCEPT ![c] = <<>>]
    /\ cleared' = [cleared EXCEPT ![c] = lastLine]
    /\ IF c = channel THEN selected' = {} /\ picked' = {} ELSE UNCHANGED <<selected, picked>>
    /\ UNCHANGED <<channel, clipboard, lastLine, given, meant>>

\* The combo box, or show_channel(): the proxy takes another model.
ShowIndex(c) ==
    /\ c # channel
    /\ channel' = c /\ selected' = {} /\ picked' = {}
    /\ UNCHANGED <<buffer, clipboard, lastLine, cleared, given, meant>>

Select(rows) ==
    /\ selected' = rows
    /\ picked' = {buffer[channel][r] : r \in rows}
    /\ UNCHANGED <<buffer, channel, clipboard, lastLine, cleared, given, meant>>

\* copy_lines(): the selected rows, or all of them.
CopyLines ==
    LET rows == IF selected = {} THEN DOMAIN buffer[channel] ELSE selected
        lines == IF picked = {} THEN ToSet(buffer[channel]) ELSE picked IN
    /\ clipboard' = [r \in rows |-> IF r \in DOMAIN buffer[channel] THEN buffer[channel][r] ELSE 0]
    /\ meant' = lines
    /\ UNCHANGED <<buffer, channel, selected, lastLine, cleared, given, picked>>

OutputNext ==
    \/ \E c \in DOMAIN buffer : AppendLine(c) \/ Clear(c) \/ ShowIndex(c)
    \/ \E rows \in SUBSET DOMAIN buffer[channel] : Select(rows)
    \/ CopyLines

OutputSpec == OutputInit /\ [][OutputNext]_outputVars
----------------------------------------------------------------------------
\* A channel holds its newest lines since it was cleared, without a gap and no
\* more than its limit; and what is copied is the lines the person selected,
\* those still there, in the order they came, though rows move when old lines
\* are trimmed, other channels get lines, and the pane shows another channel.
OutputKept ==
    /\ {clipboard[r] : r \in DOMAIN clipboard} = meant
    /\ \A q, r \in DOMAIN clipboard : q < r => clipboard[q] < clipboard[r]
    /\ \A c \in DOMAIN buffer :
         LET since == {n \in given[c] : n > cleared[c]} IN
         /\ Len(buffer[c]) <= MaxEntries
         /\ \A i, j \in DOMAIN buffer[c] : i < j => buffer[c][i] < buffer[c][j]
         /\ ToSet(buffer[c]) \subseteq since
         /\ Len(buffer[c]) < MaxEntries => ToSet(buffer[c]) = since
         /\ \A n \in since \ ToSet(buffer[c]) : \A m \in ToSet(buffer[c]) : n < m
=============================================================================
