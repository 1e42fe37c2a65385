\* The two daemon entry points: is the wallet deleted only after its users stopped?
CONSTANT Variants = {"daemon", "beancashd"}
CONSTANT ModalStyles = {FALSE}
SPECIFICATION Spec
INVARIANT WalletNotFreedWhileInUse
