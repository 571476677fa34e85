------------------------------ MODULE MCLogFS ------------------------------
EXTENDS LogFSFiles
MCPayloads == {<<1>>, <<2, 3>>}
============================================================================
