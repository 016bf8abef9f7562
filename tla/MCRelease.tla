----------------------------- MODULE MCRelease -----------------------------
\* Instances of Release for TLC: before and after the first major version.
EXTENDS Release

MCFirsts == {<<0, 1, 0>>, <<1, 0, 0>>}
=============================================================================
