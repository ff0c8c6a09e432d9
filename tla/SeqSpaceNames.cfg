\* every writer there is: the poll loop, the MCP server, the command line tool, the host,
\* its command gate, and an owner who deletes tasks; at the bound nothing moves
SPECIFICATION SeqSpec
CONSTANTS
    Id = {a, b, c, d}
    Writer = {runner, tools}
    MaxSeq = 8
    Cli = TRUE
    Denials = TRUE
    Deletes = TRUE
INVARIANTS
    NumbersNameRows
CHECK_DEADLOCK FALSE
