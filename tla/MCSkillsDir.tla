---------------------------- MODULE MCSkillsDir ----------------------------
\* Small instances of SkillsDir for TLC.
EXTENDS SkillsDir

\* Every skill has a dir of its own name, but for the one whose name has
\* neither letters nor digits: its slug is empty.
OwnSlug == [n \in Names |-> IF n \in Slugs THEN n ELSE Root]
=============================================================================
