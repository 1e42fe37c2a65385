\* All three entry points: threads, shutdown requests and Shutdown(); the liveness promise for the entry points that join on the main thread.
CONSTANT Variants = {"daemon", "beancashd", "qt"}
CONSTANT ModalStyles = {FALSE}
SPECIFICATION Spec
INVARIANT TypeOK
INVARIANT QtWalletNotFreedWhileInUse
PROPERTY ShutdownCompletesJoiningOnMain
