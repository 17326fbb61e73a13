------------------------------ MODULE MCProcesses ------------------------------
EXTENDS FmonProcesses
CONSTANTS A, B
MCPath == {A, B}
MCBelow == [p \in MCPath |-> {}]
MCConfigs == {{A}, {A, B}}
================================================================================
