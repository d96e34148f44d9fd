-------------------------------- MODULE MCVfs --------------------------------
(* Small instances of Vfs: two names, paths of at most two components.      *)
EXTENDS Vfs

CONSTANTS a, b

Abs(comps) == [abs |-> TRUE, comps |-> comps]
Rel(comps) == [abs |-> FALSE, comps |-> comps]

\* One component, and an absolute path of two.
MCOpenPaths == {Rel(<<a>>), Abs(<<a, a>>), Rel(<<Dot>>)}
MCCreatePaths == {Rel(<<b>>), Abs(<<b>>)}
MCMkdirPaths == {Rel(<<a>>)}
MCOtherPaths == {Rel(<<a>>), Rel(<<b>>), Abs(<<a, b>>), Abs(<< >>)}

\* Every form but opening "/" or "": parents, dots, missing directories.
WideOpenPaths == {Rel(<<DotDot>>), Rel(<<a, a>>)}
WideCreatePaths == {Rel(<<b>>), Abs(<<a, b>>)}
WideMkdirPaths == {Rel(<<a>>)}
WideOtherPaths == {Abs(<<a>>), Rel(<<b>>), Rel(<<DotDot>>)}

\* The root and the working directory by "/" and "".
RootOpenPaths == {Abs(<< >>), Rel(<< >>)}
==============================================================================
