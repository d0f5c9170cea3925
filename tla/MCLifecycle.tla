------------------------------ MODULE MCLifecycle ------------------------------
(* Model checking of Lifecycle: command lines and files that set little,   *)
(* or what a usual one sets, and at most one option more.                  *)
EXTENDS Lifecycle

\* The options, for the definitions of the two constants.
Names == INSTANCE Startup WITH
            flags <- args, file <- configFile, pc <- progress,
            FlagSettings <- {}, FileSettings <- {}

Given(S) == [o \in S |-> "given"]
Bad(o)   == [x \in {o} |-> "bad"]
Huge(o)  == [x \in {o} |-> "huge"]

\* The settings in bases, and those with one option more.
OneMore(bases) ==
    bases \cup {Names!Overlay(Given({o}), b) : o \in Names!Options, b \in bases}
          \cup {Names!Overlay(Bad(o), b) : o \in Names!CanBeBad, b \in bases}
          \cup {Names!Overlay(Huge(o), b) : o \in Names!CanBeHuge, b \in bases}

CommandLines == OneMore({Given({}), Given({"listen", "remote", "enable-tcp"})})
Files        == OneMore({Given({}), Given({"enable-tcp"})})

=============================================================================
