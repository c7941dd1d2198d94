-------------------------------- MODULE Decoys --------------------------------
(***************************************************************************)
(* decoy/index.ts: the file of decoy tokens that `agentwall decoy` and the   *)
(* operator route decoy-generate add to, and the environment block that      *)
(* plants a token.  A save overwrites the file in place.                     *)
(***************************************************************************)
EXTENDS Naturals, Sequences, FiniteSets, SequencesExt

CONSTANTS DecoyKinds, Labels, \* what a generate may ask for; the label "" is no label
          Numerals,      \* how 2, 3, ... are written, as far as they are needed
          DecoyCommands, \* generate commands that are run
          Together       \* may two commands run at once

ASSUME DecoyAssumption ==
    /\ IsFiniteSet(DecoyCommands) /\ Cardinality(DecoyCommands) <= Len(Numerals) + 1
    /\ Numerals \in Seq(STRING) /\ \A i, j \in DOMAIN Numerals : Numerals[i] = Numerals[j] => i = j

VARIABLES decoyFile,  \* [is, tokens]: "absent", "torn" or "whole"
          fileMode,   \* "0600", or "0644" after somebody loosened it
          held,       \* what each command has loaded, and what it is about to store
          minted,     \* tokens minted so far
          saved       \* ghost: the tokens that were reported as saved

decoyVars == <<decoyFile, fileMode, held, minted, saved>>

NoMinting == [at |-> "idle", tokens |-> <<>>]
File(is, tokens) == [is |-> is, tokens |-> tokens]
Token(n, kind, label) == [id |-> n, kind |-> kind, label |-> label]

(***************************************************************************)
(* uniqueEnvName and decoyEnvBlock: a name is its parts, joined by "_".     *)
(***************************************************************************)
Parts(s) == IF s = "" THEN <<>> ELSE <<s>>
UniqueEnvName(token, used) ==
    LET preferred == <<token.kind>> \o Parts(token.label)
        tails == <<<<>>>> \o [i \in 1 .. Len(Numerals) |-> <<Numerals[i]>>]
        free == {i \in 1 .. Len(tails) : preferred \o tails[i] \notin used}
    IN preferred \o tails[CHOOSE i \in free : \A j \in free : i <= j]
EnvBlock(tokens) ==
    LET names[n \in 0 .. Len(tokens)] ==
          IF n = 0 THEN <<>>
          ELSE Append(names[n - 1], UniqueEnvName(tokens[n], ToSet(names[n - 1])))
    IN names[Len(tokens)]

(***************************************************************************)
(* commandDecoyGenerate and the route: load, mint, save.                   *)
(***************************************************************************)
\* Mutant: a file that cannot be read holds no decoys yet.
UnreadableIsEmpty == TRUE
\* loadDecoys refuses a file that others may read, and one that it cannot parse.
MayLoad == decoyFile.is = "absent" \/ (fileMode = "0600" /\ decoyFile.is = "whole")
Generate(c) ==
    /\ held[c].at = "idle" /\ (Together \/ \A d \in DecoyCommands : held[d].at \in {"idle", "ended"})
    /\ MayLoad
    /\ \E kind \in DecoyKinds, label \in Labels :
         /\ minted' = minted + 1
         /\ held' = [held EXCEPT ![c] = [at |-> "loaded",
                       tokens |-> Append(decoyFile.tokens, Token(minted + 1, kind, label))]]
    /\ UNCHANGED <<decoyFile, fileMode, saved>>
\* saveDecoys: the write empties the file first; the mode is made right after it.
SaveBegins(c) ==
    /\ held[c].at = "loaded"
    /\ decoyFile' = File("torn", <<>>) /\ held' = [held EXCEPT ![c].at = "writing"]
    /\ fileMode' = IF decoyFile.is = "absent" THEN "0600" ELSE fileMode
    /\ UNCHANGED <<minted, saved>>
SaveEnds(c) ==
    /\ held[c].at = "writing"
    /\ decoyFile' = File("whole", held[c].tokens) /\ fileMode' = "0600"
    /\ saved' = saved \cup {held[c].tokens[Len(held[c].tokens)]}
    /\ held' = [held EXCEPT ![c].at = "ended"]
    /\ UNCHANGED minted
\* The command is killed where it is.
CommandDies(c) ==
    /\ held[c].at \in {"loaded", "writing"} /\ held' = [held EXCEPT ![c].at = "ended"]
    /\ UNCHANGED <<decoyFile, fileMode, minted, saved>>
Loosen ==
    /\ decoyFile.is = "whole" /\ fileMode = "0600" /\ fileMode' = "0644"
    /\ UNCHANGED <<decoyFile, held, minted, saved>>

DecoyInit ==
    /\ decoyFile = File("absent", <<>>) /\ fileMode = "0600" /\ minted = 0 /\ saved = {}
    /\ held = [c \in DecoyCommands |-> NoMinting]
DecoyNext ==
    \/ \E c \in DecoyCommands : Generate(c) \/ SaveBegins(c) \/ SaveEnds(c) \/ CommandDies(c)
    \/ Loosen
DecoySpec == DecoyInit /\ [][DecoyNext]_decoyVars

(***************************************************************************)
(* Property                                                                *)
(***************************************************************************)
\* A token reported as saved is in the file, or the file refuses to be loaded.
NoDecoyIsLost ==
    /\ decoyFile.is = "whole" => saved \subseteq ToSet(decoyFile.tokens)
    /\ decoyFile.is = "absent" => saved = {}
\* A block of all of them exports each under a name of its own.
EachIsNamedApart ==
    decoyFile.is = "whole" => Cardinality(ToSet(EnvBlock(decoyFile.tokens))) = Len(decoyFile.tokens)
\* Run one after another, and killed anywhere, the commands never lose a decoy silently
\* (commandDecoyGenerate, loadDecoys, uniqueEnvName).
PlantedDecoysAreKept == NoDecoyIsLost /\ EachIsNamedApart
=============================================================================
