------------------------------ MODULE MCEngine ------------------------------
\* One call of Check and one of Analyze, and a pool of one thread, so that a
\* task has to wait for one; a result can be larger than a message, and a
\* process can die with its output half written.  The paths of the temporary CSV
\* and of the rules are such as the server takes and such as it refuses.
EXTENDS Engine

Path(absolute, parent, ext) == [absolute |-> absolute, parent |-> parent, ext |-> ext]
CsvPaths == {Path(FALSE, FALSE, "csv"), Path(TRUE, FALSE, "csv"), Path(FALSE, TRUE, "csv")}
RulesPaths == {Path(FALSE, FALSE, "yaml"), Path(TRUE, FALSE, "yml"), Path(FALSE, FALSE, "json")}
=============================================================================
