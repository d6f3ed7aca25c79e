------------------------------ MODULE Settings ------------------------------
(***************************************************************************)
(* The process-wide settings (settings.rs): a map in memory, loaded once   *)
(* per process, and settings.xml.  save truncates the file and then writes *)
(* it; the process or the write may stop in between.                       *)
(*                                                                         *)
(* A value is its text and whether white space surrounds it: the white     *)
(* space survives in memory and not in the file, whose parser trims.       *)
(* Escaping and unescaping restore the text.  set_string refuses keys that *)
(* are no XML names, so every key here is one, and none is "Settings".     *)
(***************************************************************************)
EXTENDS Naturals, Sequences, FiniteSets, SequencesExt

CONSTANTS KeyOrder,    \* the keys, in the map's order
          ServerKey,   \* KEY_DISCOVERY_SERVER
          Texts,       \* texts of values
          Edits,       \* pairs <<k, v>>: the values the program sets
          Blank,       \* the empty text
          NotLoaded,   \* the global has not been used yet
          NotSaving,   \* no save is under way
          Budgets      \* bounds: how often each kind of step may happen; a
                       \* behaviour draws one of them

Keys == Range(KeyOrder)

StepKinds == {"edits", "saves", "crashes", "calls", "events"}

Value == [text : Texts, padded : BOOLEAN]

ASSUME SettingsAssumption ==
    /\ KeyOrder \in Seq(Keys) /\ IsInjective(KeyOrder) /\ ServerKey \in Keys /\ Blank \in Texts
    /\ Edits \subseteq Keys \X Value
    /\ Budgets \subseteq [StepKinds -> Nat]

VARIABLES values,   \* Settings.values of the global, or NotLoaded
          file,     \* settings.xml
          saving,   \* what a save under way writes, or NotSaving
          saved,    \* history: what the last save wrote, nothing if it was cut short of
                    \* the closing tag
          left      \* history: what is left of the budget

settingsVars == <<values, file, saving, saved>>

Spend(kind) == left[kind] > 0 /\ left' = [left EXCEPT ![kind] = @ - 1]

\* Partial maps from keys to values.
Maps == UNION {[D -> Value] : D \in SUBSET Keys}

EmptyMap == [k \in {} |-> Blank]

Trim(v) == [v EXCEPT !.padded = FALSE]

Trimmed(m) == [k \in DOMAIN m |-> Trim(m[k])]

-----------------------------------------------------------------------------
(* The file: the elements written so far, and whether </Settings> follows. *)

NoFile == [entries |-> <<>>, closed |-> FALSE]

\* The elements of s that are in S, in their order.
Only(s, S) ==
    LET at == {k \in DOMAIN s : s[k] \in S}
    IN  [j \in 1..Cardinality(at) |-> s[CHOOSE k \in at : Cardinality(at \cap (1..k)) = j]]

\* to_xml.
ToXml(m) == LET present == Only(KeyOrder, DOMAIN m)
            IN  [i \in DOMAIN present |-> <<present[i], m[present[i]]>>]

\* parse_children.
ParseChildren(entries) ==
    [k \in {entries[i][1] : i \in DOMAIN entries} |->
        Trim((CHOOSE e \in Range(entries) : e[1] = k)[2])]

\* Mutant of ParseSettings: whatever elements there are count.
MutParseOpen(f) == ParseChildren(f.entries)

\* parse_settings_xml: without the closing tag there is no root element.
ParseSettings(f) == IF f.closed THEN ParseChildren(f.entries) ELSE EmptyMap

-----------------------------------------------------------------------------
SettingsInit ==
    /\ values = NotLoaded /\ file = NoFile
    /\ saving = NotSaving /\ saved = EmptyMap
    /\ left \in Budgets

\* Settings::global and from_path; reload.
Load ==
    /\ values = NotLoaded
    /\ values' = ParseSettings(file)
    /\ UNCHANGED <<file, saving, saved, left>>

Reload ==
    /\ values # NotLoaded /\ saving = NotSaving
    /\ values' = ParseSettings(file)
    /\ UNCHANGED <<file, saving, saved, left>>

\* set_string and set_integer.
SetString(k, v) ==
    /\ values # NotLoaded /\ saving = NotSaving /\ Spend("edits")
    /\ values' = [x \in DOMAIN values \cup {k} |-> IF x = k THEN v ELSE values[x]]
    /\ UNCHANGED <<file, saving, saved>>

RemoveKey(k) ==
    /\ values # NotLoaded /\ saving = NotSaving /\ Spend("edits")
    /\ k \in DOMAIN values
    /\ values' = [x \in DOMAIN values \ {k} |-> values[x]]
    /\ UNCHANGED <<file, saving, saved>>

\* save: fs::write opens the file and truncates it ...
SaveBegin ==
    /\ values # NotLoaded /\ saving = NotSaving /\ Spend("saves")
    /\ saving' = values
    /\ file' = NoFile
    /\ saved' = EmptyMap
    /\ UNCHANGED values

\* ... and then writes all of it,
Whole == [entries |-> ToXml(saving), closed |-> TRUE]

SaveEnd ==
    /\ saving # NotSaving
    /\ file' = Whole /\ saved' = saving
    /\ saving' = NotSaving
    /\ UNCHANGED <<values, left>>

\* or stops somewhere: the disk is full, or the process ends.  Behind the closing tag
\* only a newline can be missing, and then the file says all.
Cut(n) == [entries |-> SubSeq(ToXml(saving), 1, n), closed |-> FALSE]

SaveStops ==
    \/ \E n \in 0..Len(ToXml(saving)) : file' = Cut(n) /\ UNCHANGED saved
    \/ file' = Whole /\ saved' = saving

SaveFail ==
    /\ saving # NotSaving /\ SaveStops
    /\ saving' = NotSaving
    /\ UNCHANGED <<values, left>>

SettingsCrash ==
    /\ values # NotLoaded /\ Spend("crashes")
    /\ IF saving = NotSaving THEN UNCHANGED <<file, saved>> ELSE SaveStops
    /\ values' = NotLoaded /\ saving' = NotSaving

\* Settings::discovery_server: a value that is blank once trimmed is none.
DiscoveryServerSet == ServerKey \in DOMAIN values /\ values[ServerKey].text # Blank

SettingsTypeOK ==
    /\ values \in Maps \cup {NotLoaded} /\ saving \in Maps \cup {NotSaving} /\ saved \in Maps
    /\ file \in [entries : Seq(Keys \X Value), closed : BOOLEAN]
    /\ left \in [StepKinds -> Nat]

\* Loading and reloading give exactly what the last save wrote, white space aside,
\* if it got past the closing tag, and nothing if an error or a crash cut it short:
\* never some of the keys, and never keys of an older save.
LoadsLastSave == [][(Load \/ Reload) => values' = Trimmed(saved)]_settingsVars
=============================================================================
