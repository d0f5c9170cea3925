-------------------------------- MODULE Startup --------------------------------
(***************************************************************************)
(* How the program comes to its configuration: config.Load and Validate    *)
(* (internal/config/config.go), then what NewLoop and the cleanup          *)
(* goroutine do with it (event/loop.go, cleanup/manager.go).               *)
(*                                                                         *)
(* The values of an option are told apart only as "default", "given" (a    *)
(* legal value, which switches a switch on), "bad" (an address that does   *)
(* not parse; a number, a timeout or an interval that is not positive or   *)
(* out of the range Validate names) and, for max-connections, which has no *)
(* upper bound, "huge": more than a slice can hold.  A setting is a        *)
(* function from the options it mentions to such values.                   *)
(***************************************************************************)
EXTENDS Naturals, FiniteSets

CONSTANTS
    FlagSettings, \* what a command line may set
    FileSettings  \* what a file may set

VARIABLES
    flags, \* what the command line sets
    file,  \* what the file of --config sets, or NoFile
    cfg,   \* cfg[o]: the value Load has for option o
    pc     \* where the program is

vars == <<flags, file, cfg, pc>>

NoFile == [nofile |-> "given"]

Addresses == {"listen", "remote"}
Switches  == {"enable-tcp", "enable-udp", "disable-conn-clear"}
Timeouts  == {"tcp-timeout", "udp-timeout"}

\* The numbers Validate looks at.
Numbers == {"socket-buffer-size", "max-connections", "clear-ratio", "clear-min"}

Options == Addresses \cup Switches \cup Timeouts \cup Numbers \cup {"clear-interval"}

\* The options Load gives a viper default.
ViperDefaults == Options \ (Addresses \cup {"clear-min", "disable-conn-clear"})

Values == {"default", "given", "bad", "huge"}

CanBeBad  == Options \ Switches
CanBeHuge == {"max-connections"}

Default == [o \in Options |-> "default"]

\* The options that s mentions get its value.
Overlay(s, c) ==
    [o \in DOMAIN s \cup DOMAIN c |-> IF o \in DOMAIN s THEN s[o] ELSE c[o]]

\* What a command line or a file can be: a switch is on or off.
LegalSetting(s) ==
    /\ DOMAIN s \subseteq Options /\ s \in [DOMAIN s -> Values \ {"default"}]
    /\ \A o \in DOMAIN s : (s[o] = "bad" => o \in CanBeBad) /\ (s[o] = "huge" => o \in CanBeHuge)

Init ==
    /\ flags \in FlagSettings
    /\ file \in FileSettings \cup {NoFile}
    /\ cfg = Default
    /\ pc = "flags"

-----------------------------------------------------------------------------
\* Load: the flags, each with its default when it was not given.
LoadFlags ==
    /\ pc = "flags"
    /\ cfg' = Overlay(flags, Default)
    /\ pc' = "file"
    /\ UNCHANGED <<flags, file>>

\* Mutant of LoadFile: the flags go before the file.
FileUnderFlags ==
    /\ pc = "file"
    /\ cfg' = IF file = NoFile THEN cfg ELSE Overlay(flags, Overlay(file, Default))
    /\ pc' = "validate"
    /\ UNCHANGED <<flags, file>>

\* Unmarshal writes every key viper knows: those of the file, and those with a
\* viper default, which the file's absence does not keep from being written.
LoadFile ==
    /\ pc = "file"
    /\ cfg' = IF file = NoFile THEN cfg
              ELSE Overlay(file, [o \in Options |-> IF o \in ViperDefaults THEN "default"
                                                    ELSE cfg[o]])
    /\ pc' = "validate"
    /\ UNCHANGED <<flags, file>>

FileUnreadable ==
    /\ pc = "file" /\ file # NoFile
    /\ pc' = "error"
    /\ UNCHANGED <<flags, file, cfg>>

\* Mutant of Valid: max-connections is not looked at.
ValidButForLimit ==
    /\ \A o \in Addresses : cfg[o] # "default"
    /\ cfg["enable-tcp"] = "given" \/ cfg["enable-udp"] = "given"
    /\ \A o \in Numbers \ {"max-connections"} : cfg[o] # "bad"

\* An address is looked at only for being there; max-connections only for being
\* positive; timeouts and interval not at all.
Valid ==
    /\ \A o \in Addresses : cfg[o] # "default"
    /\ cfg["enable-tcp"] = "given" \/ cfg["enable-udp"] = "given"
    /\ \A o \in Numbers : cfg[o] # "bad"

Validate ==
    /\ pc = "validate"
    /\ pc' = IF Valid THEN "newLoop" ELSE "error"
    /\ UNCHANGED <<flags, file, cfg>>

\* NewLoop parses the addresses.  NewUDPManager makes a list whose capacity is
\* max-connections, which panics when that is negative or too much for a slice.
NewLoop ==
    /\ pc = "newLoop"
    /\ pc' = IF \E o \in Addresses : cfg[o] = "bad" THEN "error"
             ELSE IF cfg["max-connections"] \in {"bad", "huge"} THEN "panic" ELSE "run"
    /\ UNCHANGED <<flags, file, cfg>>

\* Run starts the cleanup goroutine, whose NewTicker panics on an interval that
\* is not positive.
CleanupLoop ==
    /\ pc = "run"
    /\ pc' = IF cfg["clear-interval"] = "bad" THEN "panic" ELSE "running"
    /\ UNCHANGED <<flags, file, cfg>>

Next ==
    \/ LoadFlags \/ LoadFile \/ FileUnreadable
    \/ Validate \/ NewLoop \/ CleanupLoop

Spec == Init /\ [][Next]_vars

-----------------------------------------------------------------------------
\* Every variable keeps its type.
TypeOK ==
    /\ cfg \in [Options -> Values]
    /\ pc \in {"flags", "file", "validate", "newLoop", "run", "running", "error", "panic"}

\* What the user asked for: the file before the flags before the default.
Asked(o) ==
    IF file # NoFile /\ o \in DOMAIN file THEN file[o]
    ELSE IF o \in DOMAIN flags THEN flags[o] ELSE "default"

\* Whatever is set where, a value out of its range ends the program with an
\* error, but for the two that nobody looks at: a clear-interval that is not
\* positive and a max-connections that is too large make it panic.  What runs has
\* its two addresses, a protocol, and all values in range but the two timeouts,
\* which are not looked at either.
PanicsOnlyUnchecked ==
    /\ pc = "panic" => cfg["clear-interval"] = "bad" \/ cfg["max-connections"] = "huge"
    /\ pc = "running" => Valid /\ \A o \in Options \ Timeouts : cfg[o] \in {"default", "given"}

\* A program that runs has every value it was asked for, unless a file was
\* given, the option is not in it, and Load has a viper default for it: such a
\* flag is set back to its default.
LostOnlyToDefaults ==
    pc = "running" =>
        \A o \in Options :
            cfg[o] = Asked(o) \/ (file # NoFile /\ o \notin DOMAIN file /\ o \in ViperDefaults
                                  /\ cfg[o] = "default")

=============================================================================
