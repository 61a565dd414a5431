SPECIFICATION Spec
CONSTANTS
 p1=p1
 p2=p2
 p3=p3
 p4=p4
 Proc = {p1,p2,p3,p4}
 NoElem=NoElem
 NoDest=NoDest
 Meshes <- AllMeshes
 Elem <- Strip
INVARIANTS Restricted OverlapRight RepairKeepsTogether
SYMMETRY ProcSymmetry
