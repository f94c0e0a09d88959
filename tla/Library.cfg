SPECIFICATION Spec
CONSTANTS
 Subject = {"heap","dynamic","timer","mail","fifo","share","isr","print","slots"}
 User = {a, b}
 CoreSize = 11
 Header = 2
 BlockSize = {1, 2, 4}
 Micros = {1, 1000, 8192, 70000, 8388607, 8388608}
 Holder = {a, b}
 PoolArea = {p1}
 HeapArea = {h1}
 MaxRefs = 2
 RegistryAnyTime = FALSE
 Th2 = a
 Th3 = b
 Count = 3
 MaxErrors = 1
 Prio = {2, 3}
 Main = main
 Idle = idle
 NoThread = nothread
 Thread = {main, idle, a, b}
 Quantum = 1
 Sem = {"s1","s2"}
 Mutex = {"m1"}
 CondVar = {}
 Object = {"s1","s2","m1"}
 EmptySem = "s1"
 FullSem = "s2"
 MaxCnt = 3
 Size = 2
 Item = {1,2}
 ResetsAnyTime = FALSE
 Time = {1}
INVARIANTS
 MemoryIsWhole
 TimerRight
 SketchesRight
PROPERTY SketchesGoOn
