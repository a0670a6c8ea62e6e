----------------------------- MODULE MCFsWatch -----------------------------
\* FsWatch for TLC: one directory below another and a file in the first, and beside
\* them a hidden directory with one that is not hidden below it.
EXTENDS FsWatch

MCRoots == {<<".", "data">>}
MCDirPaths == {<<"a">>, <<"a", "b">>, <<".h">>, <<".h", "b">>}
MCOneDir == {<<"a">>}
MCFilePaths == {<<"a", "f">>}
MCWanted == {"f"}
=============================================================================
